---- MODULE Spec2Model ----
(***************************************************************************)
(* A model of the URL replacement engine of src/url_replacer.py:           *)
(* the format strategies (_replace_urls_in_text, _replace_urls_in_markdown,*)
(* _replace_urls_in_html) as operators over character sequences,           *)
(* replace_urls_in_file / restore_from_backup as a state machine over a    *)
(* small file system, and replace_urls_in_directory / cleanup_backups as a *)
(* state machine over a directory tree.                                    *)
(*                                                                         *)
(* A Python str is a sequence of one-character strings.  A file is a       *)
(* record [enc, text]: the bytes obtained by encoding text with codec enc. *)
(***************************************************************************)
EXTENDS Integers, Sequences, FiniteSets, TLC

\* ------------------------------------------------------------------------
\* Bounds of the model
\* ------------------------------------------------------------------------

\* Longest document, in pieces, that the strategy specification draws.
MaxLen == 3

\* Longest HTML document, in pieces, that the HTML specification draws.
MaxElements == 2

\* Number of replace_urls_in_file calls one behaviour of Spec makes.
MaxCalls == 1

\* Number of calls one behaviour of the directory specification makes.
MaxOps == 2

\* Longest list of results a report is made of.
MaxResults == 3

\* Longest list of URLs download_images_batch is given.
MaxUrls == 2

\* Longest list of results a retry is given.
MaxItems == 2

\* Largest max_retries a retry is given.
MaxRetries == 2

\* config.MAX_RETRIES
MAX_RETRIES == 3

\* ------------------------------------------------------------------------
\* State
\* ------------------------------------------------------------------------

\* The strategies applied to drawn inputs (specification SpecStrategy).
VARIABLES
    sStrategy,   \* "text", "markdown" or "html"
    sContent,    \* the document the strategy is applied to
    sMapping,    \* the url_mapping
    sStage,      \* "drawn", "once" (applied), "twice" (applied to its own output)
    sFirst,      \* what the first application handed back
    sSecond      \* what the second application handed back

svars == <<sStrategy, sContent, sMapping, sStage, sFirst, sSecond>>

\* replace_urls_in_file and restore_from_backup over a file system
\* (specification Spec).
VARIABLES
    fs,         \* the file system: what each path names
    pc,         \* where the running replace_urls_in_file call is; "idle" when none
    call,       \* its arguments: file_path, url_mapping, output_path, backup
    locals,     \* its locals content, new_content and replacements
    exc,        \* the exception being handled, None when none
    result,     \* its result dict
    outcome,    \* how the last call ended: "returned", "raised", "crashed"
    pre,        \* the file system when the last call began
    log,        \* what the last call did to files so far, in order
    calls,      \* the number of calls begun
    restored    \* the last restore_from_backup since the call: path, ok, n in a row

fvars == <<fs, pc, call, locals, exc, result, outcome, pre, log,
           calls, restored>>

\* replace_urls_in_directory, cleanup_backups and the calls on single files
\* over a directory tree (specification SpecDir).
VARIABLES
    tree,       \* the file system: what each path names
    dmapping,   \* the url_mapping every call of the behaviour is given
    dpc,        \* "walk" while replace_urls_in_directory runs, else "idle"
    dcall,      \* the arguments of the running replace_urls_in_directory
    dirsLeft,   \* the directories os.walk has still to list
    filesLeft,  \* the listed files the loop has still to take
    results,    \* the results of the last call, in the order appended
    taken,      \* the files the last call took, in the order taken
    before,     \* the file system when the last call began
    last,       \* the last call: which, its arguments, what it returned
    ops         \* the number of calls begun

dvars == <<tree, dmapping, dpc, dcall, dirsLeft, filesLeft, results, taken,
           before, last, ops>>

\* create_replacement_report applied to drawn result lists (specification
\* SpecReport).
VARIABLES
    rResults,   \* the list of results the report is made of
    report,     \* the lines of the report, <<>> before the call
    rpc         \* "drawn" before the call, "reported" after it, else "off"

rvars == <<rResults, report, rpc>>

\* download_images_batch of src/image_downloader.py: one
\* download_single_image call per URL, run by the threads of a pool
\* (specification SpecDownload).
VARIABLES
    urls,        \* the URLs of the batch, in the order submitted
    max_workers, \* the number of threads of the pool
    disk,        \* the paths that exist in the download directory
    tpc,         \* per call: "queued", "check", "get", "save", "verify", "done"
    local_path,  \* per call: its local_path
    counter,     \* per call: its counter
    tresult,     \* per call: its result dict
    collected,   \* which calls as_completed has handed over, in that order
    bpc          \* "running" until the batch has returned, else "off"

tvars == <<urls, max_workers, disk, tpc, local_path, counter, tresult,
           collected, bpc>>

\* retry_failed_downloads of src/image_downloader.py and
\* retry_failed_uploads of src/wechat_uploader.py (specification SpecRetry).
VARIABLES
    kind,           \* "download" or "upload": which of the two loops runs
    failed_results, \* the results the retry is given
    max_retries,    \* max_retries: as given, then as line 192 sets it
    failed_items,   \* failed_urls / failed_paths
    attempt,        \* the number of rounds begun
    retry_results,  \* retry_results
    rounds,         \* the current_results of every round so far, in order
    ypc             \* "called", "loop", "returned"; "off" when none runs

yvars == <<kind, failed_results, max_retries, failed_items, attempt,
           retry_results, rounds, ypc>>

\* What the specifications of the other modules of the engine add.
xvars == <<rvars, tvars, yvars>>

vars == <<svars, fvars, dvars, xvars>>

\* ------------------------------------------------------------------------
\* Python str operations
\* ------------------------------------------------------------------------

\* s[i:i+len(k)] == k, with i a 1-based position.
MatchAt(s, k, i) ==
    /\ i >= 1
    /\ i + Len(k) - 1 <= Len(s)
    /\ \A j \in 1..Len(k) : s[i + j - 1] = k[j]

\* k in s
Contains(s, k) == \E i \in 1..(Len(s) + 1) : MatchAt(s, k, i)

\* s.find(k, from): the first position >= from where k occurs, 0 when none.
Find(s, k, from) ==
    IF \E i \in from..(Len(s) + 1) : MatchAt(s, k, i)
    THEN CHOOSE i \in from..(Len(s) + 1) :
            /\ MatchAt(s, k, i)
            /\ \A j \in from..(i - 1) : ~MatchAt(s, k, j)
    ELSE 0

RECURSIVE CountFrom(_, _, _)
CountFrom(s, k, from) ==
    LET p == Find(s, k, from)
    IN  IF p = 0 THEN 0 ELSE 1 + CountFrom(s, k, p + Len(k))

\* s.count(k): non-overlapping occurrences, leftmost first; len(s)+1 for "".
Count(s, k) == IF k = <<>> THEN Len(s) + 1 ELSE CountFrom(s, k, 1)

RECURSIVE ReplaceFrom(_, _, _, _)
ReplaceFrom(s, old, new, from) ==
    LET p == Find(s, old, from)
    IN  IF p = 0
        THEN SubSeq(s, from, Len(s))
        ELSE SubSeq(s, from, p - 1) \o new \o ReplaceFrom(s, old, new, p + Len(old))

RECURSIVE Interleave(_, _, _)
Interleave(s, new, i) ==
    IF i > Len(s) THEN new ELSE new \o <<s[i]>> \o Interleave(s, new, i + 1)

\* A replace that stops after the first occurrence, for comparison.
ReplaceOnce(s, old, new) ==
    LET p == Find(s, old, 1)
    IN  IF p = 0 THEN s
        ELSE SubSeq(s, 1, p - 1) \o new \o SubSeq(s, p + Len(old), Len(s))

\* s.replace(old, new): every non-overlapping occurrence, leftmost first;
\* for old == "" the new string is inserted before every character and at the end.
Replace(s, old, new) ==
    IF old = <<>> THEN Interleave(s, new, 1) ELSE ReplaceFrom(s, old, new, 1)

\* ------------------------------------------------------------------------
\* URL mappings: a dict is the sequence of its items in insertion order,
\* each item <<old_url, new_url>>.  NonStr stands for a key or value that is
\* not a str (None, a number), as a JSON mapping file can hold.
\* ------------------------------------------------------------------------

NonStr == <<"None">>

IsStr(v) == v # NonStr

Old(item) == item[1]
New(item) == item[2]

\* What a strategy hands back: (new_content, replacements), or an exception.
Returned(c, n) == [raised |-> FALSE, content |-> c, count |-> n, error |-> ""]
Raised(e) == [raised |-> TRUE, content |-> <<>>, count |-> 0, error |-> e]

\* ------------------------------------------------------------------------
\* Text strategy
\* ------------------------------------------------------------------------

\* A loop that ends at the first key it finds, for comparison.
RECURSIVE TextLoopUntilFound(_, _, _, _, _)
TextLoopUntilFound(content, url_mapping, i, new_content, replacements) ==
    IF i > Len(url_mapping)
    THEN Returned(new_content, replacements)
    ELSE IF Contains(new_content, Old(url_mapping[i]))
    THEN Returned(Replace(new_content, Old(url_mapping[i]), New(url_mapping[i])),
                  replacements + Count(content, Old(url_mapping[i])))
    ELSE TextLoopUntilFound(content, url_mapping, i + 1, new_content,
                            replacements)

RECURSIVE TextLoop(_, _, _, _, _)
TextLoop(content, url_mapping, i, new_content, replacements) ==
    IF i > Len(url_mapping)
    THEN Returned(new_content, replacements)
    ELSE LET old_url == Old(url_mapping[i])
             new_url == New(url_mapping[i])
         IN  IF ~IsStr(old_url)
             THEN Raised("TypeError")
             ELSE IF Contains(new_content, old_url)
             THEN IF ~IsStr(new_url)
                  THEN Raised("TypeError")
                  ELSE TextLoop(content, url_mapping, i + 1,
                                Replace(new_content, old_url, new_url),
                                replacements + Count(content, old_url))
             ELSE TextLoop(content, url_mapping, i + 1, new_content, replacements)

\* The loop with its counter started at 1, for comparison.
CountingFromOne(content, url_mapping) ==
    TextLoop(content, url_mapping, 1, content, 1)

replace_urls_in_text(content, url_mapping) ==
    TextLoop(content, url_mapping, 1, content, 0)

\* ------------------------------------------------------------------------
\* Regular expressions of the Markdown strategy
\* ------------------------------------------------------------------------

Newline == "\n"

\* re.IGNORECASE on the characters of the model: the upper-case letters it uses.
Lower(ch) ==
    CASE ch = "A" -> "a"
      [] ch = "I" -> "i"
      [] ch = "M" -> "m"
      [] ch = "G" -> "g"
      [] ch = "S" -> "s"
      [] ch = "R" -> "r"
      [] ch = "C" -> "c"
      [] OTHER -> ch

\* MatchAt under re.IGNORECASE.
MatchAtNoCase(s, k, i) ==
    /\ i >= 1
    /\ i + Len(k) - 1 <= Len(s)
    /\ \A j \in 1..Len(k) : Lower(s[i + j - 1]) = Lower(k[j])

\* A match of a two-group pattern (group1)old_url(group2):
\* start and end of the whole match, and where old_url starts in it.
Match(start, at, end) == [start |-> start, at |-> at, end |-> end]

\* r'(!\[.*?\]\()' + re.escape(old_url) + r'(\))' tried at position s: the lazy
\* .*? stops at the nearest "](old_url)" with no newline before it.
MdCloseOk(s, old_url, start, e) ==
    /\ MatchAt(s, <<"]", "(">> \o old_url \o <<")">>, e)
    /\ \A j \in (start + 2)..(e - 1) : s[j] # Newline

MdMatchAt(s, old_url, start) ==
    IF /\ MatchAt(s, <<"!", "[">>, start)
       /\ \E e \in (start + 2)..Len(s) : MdCloseOk(s, old_url, start, e)
    THEN LET e == CHOOSE e \in (start + 2)..Len(s) :
                    /\ MdCloseOk(s, old_url, start, e)
                    /\ \A j \in (start + 2)..(e - 1) : ~MdCloseOk(s, old_url, start, j)
         IN  Match(start, e + 2, e + 2 + Len(old_url))
    ELSE Match(0, 0, 0)

\* r'(<img[^>]+src=["\']?)' + re.escape(old_url) + r'(["\']?[^>]*>)' with
\* re.IGNORECASE, tried at position start with "src=" at position p: the optional
\* quote is taken when the rest matches with it, the match ends at the next ">".
Quotes == {"\"", "'"}

ImgOldAt(s, old_url, p) ==
    LET q == p + 4
        closes(o) == /\ MatchAtNoCase(s, old_url, o)
                     /\ \E r \in (o + Len(old_url))..Len(s) : s[r] = ">"
    IN  IF q <= Len(s) /\ s[q] \in Quotes /\ closes(q + 1) THEN q + 1
        ELSE IF closes(q) THEN q
        ELSE 0

ImgSrcOk(s, old_url, start, p) ==
    /\ p >= start + 5
    /\ \A j \in (start + 4)..(p - 1) : s[j] # ">"
    /\ MatchAtNoCase(s, <<"s", "r", "c", "=">>, p)
    /\ ImgOldAt(s, old_url, p) # 0

ImgMatchAt(s, old_url, start) ==
    IF /\ MatchAtNoCase(s, <<"<", "i", "m", "g">>, start)
       /\ \E p \in (start + 5)..Len(s) : ImgSrcOk(s, old_url, start, p)
    THEN \* the greedy [^>]+ keeps the last "src=" from which the rest matches
         LET p == CHOOSE p \in (start + 5)..Len(s) :
                    /\ ImgSrcOk(s, old_url, start, p)
                    /\ \A j \in (p + 1)..Len(s) : ~ImgSrcOk(s, old_url, start, j)
             o == ImgOldAt(s, old_url, p)
             r == CHOOSE r \in (o + Len(old_url))..Len(s) :
                    /\ s[r] = ">"
                    /\ \A j \in (o + Len(old_url))..(r - 1) : s[j] # ">"
         IN  Match(start, o, r + 1)
    ELSE Match(0, 0, 0)

\* pattern is "md" or "img".
PatternMatchAt(pattern, s, old_url, start) ==
    IF pattern = "md" THEN MdMatchAt(s, old_url, start)
    ELSE ImgMatchAt(s, old_url, start)

\* re.findall: the non-overlapping matches, leftmost first.
RECURSIVE FindAll(_, _, _, _)
FindAll(pattern, s, old_url, from) ==
    IF \E i \in from..Len(s) : PatternMatchAt(pattern, s, old_url, i).start # 0
    THEN LET i == CHOOSE i \in from..Len(s) :
                    /\ PatternMatchAt(pattern, s, old_url, i).start # 0
                    /\ \A j \in from..(i - 1) :
                          PatternMatchAt(pattern, s, old_url, j).start = 0
             m == PatternMatchAt(pattern, s, old_url, i)
         IN  <<m>> \o FindAll(pattern, s, old_url, m.end)
    ELSE <<>>

\* The replacement template r'\1' + new_url + r'\2' as re.sub reads it.  The
\* model's only digit is "1": a new_url that starts with one digit turns \1
\* into a reference to group 11 (re.error); one that starts with two digits
\* turns it into the octal escape \111, the character "I", and group 1 is lost.
Digits == {"1"}

TemplateBad(new_url) ==
    /\ Len(new_url) >= 1
    /\ new_url[1] \in Digits
    /\ ~(Len(new_url) >= 2 /\ new_url[2] \in Digits)

TemplateOctal(new_url) ==
    /\ Len(new_url) >= 2
    /\ new_url[1] \in Digits
    /\ new_url[2] \in Digits

\* What one match is replaced by.
Expand(s, m, old_url, new_url) ==
    IF TemplateOctal(new_url)
    THEN <<"I">> \o SubSeq(new_url, 3, Len(new_url))
            \o SubSeq(s, m.at + Len(old_url), m.end - 1)
    ELSE SubSeq(s, m.start, m.at - 1) \o new_url
            \o SubSeq(s, m.at + Len(old_url), m.end - 1)

\* re.sub over the matches found by FindAll.
RECURSIVE SubMatches(_, _, _, _, _, _)
SubMatches(s, matches, i, from, old_url, new_url) ==
    IF i > Len(matches)
    THEN SubSeq(s, from, Len(s))
    ELSE SubSeq(s, from, matches[i].start - 1)
            \o Expand(s, matches[i], old_url, new_url)
            \o SubMatches(s, matches, i + 1, matches[i].end, old_url, new_url)

\* ------------------------------------------------------------------------
\* Markdown strategy
\* ------------------------------------------------------------------------

\* One regular-expression pass of the loop body: findall, then sub when it
\* matched.  acc is the (new_content, replacements) pair so far, or Raised.
RegexPass(pattern, acc, old_url, new_url) ==
    IF acc.raised THEN acc
    ELSE LET matches == FindAll(pattern, acc.content, old_url, 1)
         IN  IF matches = <<>> THEN acc
             ELSE IF ~IsStr(new_url) THEN Raised("TypeError")
             ELSE IF TemplateBad(new_url) THEN Raised("re.error")
             ELSE Returned(SubMatches(acc.content, matches, 1, 1, old_url, new_url),
                           acc.count + Len(matches))

\* The plain pass of the loop body.
BarePass(acc, old_url, new_url) ==
    IF acc.raised THEN acc
    ELSE IF Contains(acc.content, old_url)
    THEN IF ~IsStr(new_url) THEN Raised("TypeError")
         ELSE Returned(Replace(acc.content, old_url, new_url),
                       acc.count + Count(acc.content, old_url))
    ELSE acc

RECURSIVE MarkdownLoop(_, _, _)
MarkdownLoop(url_mapping, i, acc) ==
    IF i > Len(url_mapping) \/ acc.raised
    THEN acc
    ELSE LET old_url == Old(url_mapping[i])
             new_url == New(url_mapping[i])
         IN  IF ~IsStr(old_url)
             THEN Raised("TypeError")
             ELSE MarkdownLoop(url_mapping, i + 1,
                    BarePass(RegexPass("img",
                                RegexPass("md", acc, old_url, new_url),
                                old_url, new_url),
                             old_url, new_url))

replace_urls_in_markdown(content, url_mapping) ==
    MarkdownLoop(url_mapping, 1, Returned(content, 0))

\* ------------------------------------------------------------------------
\* The HTML strategy: _replace_urls_in_html
\* ------------------------------------------------------------------------
\* BeautifulSoup(content, 'html.parser') feeds the content to the tokenizer
\* of html.parser and builds a tree of what it reports; str(soup) writes the
\* tree back.  The documents of the model are sequences of complete
\* elements with double-quoted attributes, for which the tree is the
\* sequence of the tokens.

StartTag(name, attrs) ==
    [t |-> "start", name |-> name, attrs |-> attrs, data |-> <<>>]
EndTag(name) == [t |-> "end", name |-> name, attrs |-> <<>>, data |-> <<>>]
Data(data) == [t |-> "data", name |-> <<>>, attrs |-> <<>>, data |-> data]
\* The tokenizer gave up: html.parser raises AssertionError, which
\* BeautifulSoup hands on as ParserRejectedMarkup.
RejectedMarkup ==
    [t |-> "rejected", name |-> <<>>, attrs |-> <<>>, data |-> <<>>]

Img == <<"i", "m", "g">>
Style == <<"s", "t", "y", "l", "e">>
Src == <<"s", "r", "c">>
DataSrc == <<"d", "a", "t", "a", "-", "s", "r", "c">>

\* The first position >= i of s that holds one of chars, Len(s) + 1 when none.
RECURSIVE Until(_, _, _)
Until(s, i, chars) ==
    IF i > Len(s) \/ s[i] \in chars THEN i ELSE Until(s, i + 1, chars)

\* The attributes name="value" of a start tag from position i, and the
\* position after the tag's ">"; a "/" before the ">" is passed over.
RECURSIVE Attributes(_, _)
Attributes(s, i) ==
    IF i > Len(s) THEN [attrs |-> <<>>, next |-> i]
    ELSE IF s[i] = ">" THEN [attrs |-> <<>>, next |-> i + 1]
    ELSE IF s[i] \in {" ", "/"} THEN Attributes(s, i + 1)
    ELSE LET eq == Until(s, i, {"="})
             close == Until(s, eq + 2, {"\""})
             rest == Attributes(s, close + 1)
         IN  [attrs |-> << <<SubSeq(s, i, eq - 1),
                             SubSeq(s, eq + 2, close - 1)>> >> \o rest.attrs,
              next |-> rest.next]

\* The tokens html.parser reports for s from position i.  A marked section
\* "<![" with a keyword it does not know (the only ones of the model) makes
\* it raise; the content of <style> is character data up to "</style".
RECURSIVE Tokens(_, _)
Tokens(s, i) ==
    IF i > Len(s) THEN <<>>
    ELSE IF MatchAt(s, <<"<", "!", "[">>, i) THEN <<RejectedMarkup>>
    ELSE IF MatchAt(s, <<"<", "/">>, i)
    THEN LET e == Until(s, i, {">"})
         IN  <<EndTag(SubSeq(s, i + 2, e - 1))>> \o Tokens(s, e + 1)
    ELSE IF s[i] = "<"
    THEN LET n == Until(s, i + 1, {" ", ">"})
             name == SubSeq(s, i + 1, n - 1)
             a == Attributes(s, n)
             close == Find(s, <<"<", "/">> \o Style, a.next)
         IN  IF name = Style /\ close > a.next
             THEN <<StartTag(name, a.attrs),
                    Data(SubSeq(s, a.next, close - 1))>> \o Tokens(s, close)
             ELSE <<StartTag(name, a.attrs)>> \o Tokens(s, a.next)
    ELSE LET e == Until(s, i, {"<"})
         IN  <<Data(SubSeq(s, i, e - 1))>> \o Tokens(s, e)

\* Line 180
Parse(content) == Tokens(content, 1)

\* A parser that rejects nothing, for comparison.
RejectsNothing(tokens) == FALSE

Rejects(tokens) == \E i \in 1..Len(tokens) : tokens[i].t = "rejected"

\* The position of the attribute called name in attrs, 0 when it has none.
AttrIndex(attrs, name) ==
    IF \E k \in 1..Len(attrs) : attrs[k][1] = name
    THEN CHOOSE k \in 1..Len(attrs) : attrs[k][1] = name
    ELSE 0

\* The position of the first item whose key occurs in a string, for
\* comparison.
KeyWithinIndex(url_mapping, key) ==
    IF \E m \in 1..Len(url_mapping) : Contains(key, Old(url_mapping[m]))
    THEN CHOOSE m \in 1..Len(url_mapping) :
            /\ Contains(key, Old(url_mapping[m]))
            /\ \A n \in 1..(m - 1) : ~Contains(key, Old(url_mapping[n]))
    ELSE 0

\* key in url_mapping: the position of the item with that key, 0 when none.
KeyIndex(url_mapping, key) ==
    IF \E m \in 1..Len(url_mapping) : Old(url_mapping[m]) = key
    THEN CHOOSE m \in 1..Len(url_mapping) : Old(url_mapping[m]) = key
    ELSE 0

\* Lines 185-188 and 191-194: the attribute of an image that is a key gets
\* the key's value.
MappedAttr(attrs, name, url_mapping) ==
    LET k == AttrIndex(attrs, name)
    IN  IF k = 0 THEN FALSE
        ELSE attrs[k][2] # <<>> /\ KeyIndex(url_mapping, attrs[k][2]) # 0

SetMapped(attrs, name, url_mapping) ==
    IF MappedAttr(attrs, name, url_mapping)
    THEN LET k == AttrIndex(attrs, name)
         IN  [attrs EXCEPT ![k] =
                <<name, New(url_mapping[KeyIndex(url_mapping, attrs[k][2])])>>]
    ELSE attrs

Hit(b) == IF b THEN 1 ELSE 0

\* Lines 183-194: the images, in document order.
RECURSIVE ImgTags(_, _, _)
ImgTags(tokens, i, url_mapping) ==
    IF i > Len(tokens) THEN Returned(<<>>, 0)
    ELSE LET rest == ImgTags(tokens, i + 1, url_mapping)
             tag == tokens[i]
         IN  IF tag.t = "start" /\ tag.name = Img
             THEN LET src == SetMapped(tag.attrs, Src, url_mapping)
                      data_src == SetMapped(src, DataSrc, url_mapping)
                  IN  Returned(<<[tag EXCEPT !.attrs = data_src]>> \o rest.content,
                               Hit(MappedAttr(tag.attrs, Src, url_mapping))
                                 + Hit(MappedAttr(tag.attrs, DataSrc, url_mapping))
                                 + rest.count)
             ELSE Returned(<<tag>> \o rest.content, rest.count)

\* A hit that counts the occurrences replaced, for comparison.
CssHitPerOccurrence(acc, old_url, new_url) ==
    Returned(Replace(acc.content, old_url, new_url),
             acc.count + Count(acc.content, old_url))

\* Lines 203-204 and 214-215: a pair whose key is in the CSS text.
CssHit(acc, old_url, new_url) ==
    Returned(Replace(acc.content, old_url, new_url), acc.count + 1)

\* Lines 201-204 and 212-215: the pairs applied to a CSS text, one hit a pair.
RECURSIVE CssLoop(_, _, _)
CssLoop(url_mapping, i, acc) ==
    IF i > Len(url_mapping) \/ acc.raised THEN acc
    ELSE LET old_url == Old(url_mapping[i])
             new_url == New(url_mapping[i])
         IN  IF ~IsStr(old_url) THEN Raised("TypeError")
             ELSE IF Contains(acc.content, old_url)
             THEN IF ~IsStr(new_url) THEN Raised("TypeError")
                  ELSE CssLoop(url_mapping, i + 1,
                               CssHit(acc, old_url, new_url))
             ELSE CssLoop(url_mapping, i + 1, acc)

\* Lines 197-205: the text of every <style> element that has one.
RECURSIVE StyleTags(_, _, _, _)
StyleTags(tokens, i, url_mapping, acc) ==
    IF i > Len(tokens) \/ acc.raised THEN acc
    ELSE IF /\ tokens[i].t = "data"
            /\ i > 1
            /\ tokens[i - 1].t = "start"
            /\ tokens[i - 1].name = Style
    THEN LET new_css == CssLoop(url_mapping, 1, Returned(tokens[i].data, 0))
         IN  IF new_css.raised THEN new_css
             ELSE StyleTags(tokens, i + 1, url_mapping,
                            Returned(Append(acc.content, Data(new_css.content)),
                                     acc.count + new_css.count))
    ELSE StyleTags(tokens, i + 1, url_mapping,
                   Returned(Append(acc.content, tokens[i]), acc.count))

\* Lines 208-217: the style attribute of every element that has one.
RECURSIVE ElementsWithStyle(_, _, _, _)
ElementsWithStyle(tokens, i, url_mapping, acc) ==
    IF i > Len(tokens) \/ acc.raised THEN acc
    ELSE IF tokens[i].t = "start" /\ AttrIndex(tokens[i].attrs, Style) # 0
    THEN LET k == AttrIndex(tokens[i].attrs, Style)
             new_style == CssLoop(url_mapping, 1,
                                  Returned(tokens[i].attrs[k][2], 0))
         IN  IF new_style.raised THEN new_style
             ELSE ElementsWithStyle(tokens, i + 1, url_mapping,
                    Returned(Append(acc.content,
                                    [tokens[i] EXCEPT !.attrs[k] =
                                        <<Style, new_style.content>>]),
                             acc.count + new_style.count))
    ELSE ElementsWithStyle(tokens, i + 1, url_mapping,
                           Returned(Append(acc.content, tokens[i]), acc.count))

\* The elements that have no content and are written "<name .../>".
VoidElements == {Img}

\* An attribute as str(soup) writes it; one set to None is written bare.  No
\* text or attribute value of the model holds a character that is written
\* as an entity (&, <, >) or changes the quoting (").
RECURSIVE WriteAttrs(_, _)
WriteAttrs(attrs, k) ==
    IF k > Len(attrs) THEN <<>>
    ELSE <<" ">> \o attrs[k][1]
            \o (IF IsStr(attrs[k][2])
                THEN <<"=", "\"">> \o attrs[k][2] \o <<"\"">>
                ELSE <<>>)
            \o WriteAttrs(attrs, k + 1)

\* Line 219: str(soup)
RECURSIVE Write(_, _)
Write(tokens, i) ==
    IF i > Len(tokens) THEN <<>>
    ELSE LET tag == tokens[i]
         IN  (CASE tag.t = "start" ->
                     <<"<">> \o tag.name \o WriteAttrs(tag.attrs, 1)
                        \o (IF tag.name \in VoidElements
                            THEN <<"/", ">">> ELSE <<">">>)
                [] tag.t = "end" -> <<"<", "/">> \o tag.name \o <<">">>
                [] OTHER -> tag.data)
                \o Write(tokens, i + 1)

\* Lines 177-226: an exception of the parser or of the rewriting is caught
\* and the text strategy applied to the content instead.
replace_urls_in_html(content, url_mapping) ==
    LET soup == Parse(content)
        img_tags == ImgTags(soup, 1, url_mapping)
        style_tags == StyleTags(img_tags.content, 1, url_mapping,
                                Returned(<<>>, img_tags.count))
        elements_with_style ==
            ElementsWithStyle(style_tags.content, 1, url_mapping,
                              Returned(<<>>, style_tags.count))
    IN  IF Rejects(soup) \/ style_tags.raised \/ elements_with_style.raised
        THEN replace_urls_in_text(content, url_mapping)
        ELSE Returned(Write(elements_with_style.content, 1),
                      elements_with_style.count)


\* ------------------------------------------------------------------------
\* The strategies applied to drawn inputs (specification SpecStrategy)
\* ------------------------------------------------------------------------

\* Documents are concatenations of at most MaxLen pieces.
TextPieces == {<<"a">>, <<"b">>, <<"c">>}

MarkdownPieces ==
    { <<"a">>, <<"A">>,
      <<"!", "[", "x", "]", "(">>, <<")">>,
      <<"<", "i", "m", "g", " ", "s", "r", "c", "=", "\"">>, <<"\"", ">">> }

RECURSIVE Documents(_, _)
Documents(pieces, n) ==
    IF n = 0 THEN {<<>>}
    ELSE LET shorter == Documents(pieces, n - 1)
         IN  shorter \cup {d \o p : d \in shorter, p \in pieces}

Keys == {<<"a">>, <<"a", "b">>, <<"b", "c">>}

Values == {<<>>, <<"a">>, <<"c">>, <<"d">>, <<"a", "a">>, <<"A">>, <<"1">>}

Items == {<<k, v>> : k \in Keys, v \in Values}

\* The items that dicts of two items are made of.
PairedItems == {<<k, v>> : k \in Keys, v \in {<<"a">>, <<"c">>, <<"d">>}}

\* dicts of one or two items, in every insertion order
Mappings ==
    {<<i>> : i \in Items}
        \cup {m \in {<<i, j>> : i \in PairedItems, j \in PairedItems} :
                Old(m[1]) # Old(m[2])}

NoResult == [raised |-> FALSE, content |-> <<>>, count |-> -1, error |-> "none"]

Strategy(name, content, url_mapping) ==
    IF name = "markdown" THEN replace_urls_in_markdown(content, url_mapping)
    ELSE IF name = "html" THEN replace_urls_in_html(content, url_mapping)
    ELSE replace_urls_in_text(content, url_mapping)

\* HTML documents: images whose src is a key, holds a key, or is no key;
\* a lazily loaded image; a style sheet; an element with a style attribute
\* and a text; a text; a marked section that html.parser rejects.
HtmlPieces ==
    { <<"<">> \o Img \o <<" ">> \o Src \o <<"=", "\"", "a", "\"", ">">>,
      <<"<">> \o Img \o <<" ">> \o Src \o <<"=", "\"", "a", "b", "\"", " ">>
          \o DataSrc \o <<"=", "\"", "a", "\"", ">">>,
      <<"<">> \o Style \o <<">", "a", "a", "b", "<", "/">> \o Style \o <<">">>,
      <<"<", "p", " ">> \o Style \o <<"=", "\"", "a", "\"", ">", "a",
                                       "<", "/", "p", ">">>,
      <<"b", "c">>,
      <<"<", "!", "[", "x", ">">> }

HtmlInit ==
    /\ sStrategy = "html"
    /\ sContent \in Documents(HtmlPieces, MaxElements)
    /\ sMapping \in Mappings
    /\ sStage = "drawn"
    /\ sFirst = NoResult
    /\ sSecond = NoResult

StrategyInit ==
    /\ sStrategy \in {"text", "markdown"}
    /\ sContent \in Documents(IF sStrategy = "text" THEN TextPieces
                              ELSE MarkdownPieces, MaxLen)
    /\ sMapping \in Mappings
    /\ sStage = "drawn"
    /\ sFirst = NoResult
    /\ sSecond = NoResult

Apply ==
    /\ sStage = "drawn"
    /\ sFirst' = Strategy(sStrategy, sContent, sMapping)
    /\ sStage' = "once"
    /\ UNCHANGED <<sStrategy, sContent, sMapping, sSecond>>
    /\ UNCHANGED <<fvars, dvars, xvars>>

\* The strategy applied again, to what it returned; an exception ends the run.
ApplyAgain ==
    /\ sStage = "once"
    /\ ~sFirst.raised
    /\ sSecond' = Strategy(sStrategy, sFirst.content, sMapping)
    /\ sStage' = "twice"
    /\ UNCHANGED <<sStrategy, sContent, sMapping, sFirst>>
    /\ UNCHANGED <<fvars, dvars, xvars>>

StrategyNext == Apply \/ ApplyAgain

\* ------------------------------------------------------------------------
\* The file system
\* ------------------------------------------------------------------------

\* None, for an optional str (output_path, backup_path, error).
None == "None"

\* A path names nothing, a directory, or a regular file whose bytes are the
\* encoding of text with codec enc.
Absent == [kind |-> "absent"]
Dir == [kind |-> "dir"]
File(enc, text) == [kind |-> "file", enc |-> enc, text |-> text]

\* Characters outside ASCII: a CJK character, whose GBK bytes are not valid
\* UTF-8, and a lone surrogate, which a str can hold and UTF-8 cannot encode.
Cjk == "U+4E2D"
Surrogate == "U+DC80"

IsAscii(text) == \A i \in 1..Len(text) : text[i] \notin {Cjk, Surrogate}

SourcePaths == {"a.txt", "a.md", "d"}

BackupPaths == {"a.txt.backup", "a.md.backup", "d.backup"}

Paths == SourcePaths \cup BackupPaths \cup {"out", "out/a.txt"}

\* The paths of the directory specification: a directory dir with files, a
\* subdirectory, a directory g.txt and a directory n.backup; the backups of
\* the files; an output directory outd that mirrors dir; a path that names
\* nothing.
TreeFiles == {"dir/a.txt", "dir/b.md", "dir/sub/c.html", "dir/E.HTM",
              "dir/README"}

TreeBackups == {"dir/a.txt.backup", "dir/b.md.backup",
                "dir/sub/c.html.backup", "dir/E.HTM.backup",
                "dir/README.backup"}

TreeOutputs == {"outd/a.txt", "outd/b.md", "outd/sub/c.html", "outd/E.HTM"}

\* What an output directory dir/sub inside dir adds: the outputs of the files
\* of dir (there is a b.md in dir/sub itself) with their backups, and the
\* outputs of the files of dir/sub one level further down.
NestedPaths == {"dir/sub/a.txt", "dir/sub/b.md", "dir/sub/a.txt.backup",
                "dir/sub/b.md.backup", "dir/sub/sub", "dir/sub/sub/a.txt",
                "dir/sub/sub/b.md"}

TreePaths ==
    TreeFiles \cup TreeBackups \cup TreeOutputs \cup NestedPaths
        \cup {"dir", "dir/sub", "dir/g.txt", "dir/n", "dir/n.backup",
              "outd", "outd/sub", "nodir"}

\* f"{file_path}.backup"
BackupPath(file_path) ==
    CASE file_path = "a.txt" -> "a.txt.backup"
      [] file_path = "a.md" -> "a.md.backup"
      [] file_path = "d" -> "d.backup"
      [] file_path = "dir/a.txt" -> "dir/a.txt.backup"
      [] file_path = "dir/b.md" -> "dir/b.md.backup"
      [] file_path = "dir/sub/c.html" -> "dir/sub/c.html.backup"
      [] file_path = "dir/E.HTM" -> "dir/E.HTM.backup"
      [] file_path = "dir/README" -> "dir/README.backup"
      [] file_path = "dir/n" -> "dir/n.backup"
      [] file_path = "dir/sub/a.txt" -> "dir/sub/a.txt.backup"
      [] file_path = "dir/sub/b.md" -> "dir/sub/b.md.backup"

\* os.path.dirname(os.path.abspath(p)); "." is the working directory.
Dirname(p) ==
    CASE p = "out/a.txt" -> "out"
      [] p \in {"dir/a.txt", "dir/b.md", "dir/E.HTM", "dir/README", "dir/sub",
                "dir/g.txt", "dir/n", "dir/n.backup", "dir/a.txt.backup",
                "dir/b.md.backup", "dir/E.HTM.backup", "dir/README.backup"}
            -> "dir"
      [] p \in {"dir/sub/c.html", "dir/sub/c.html.backup", "dir/sub/a.txt",
                "dir/sub/b.md", "dir/sub/a.txt.backup", "dir/sub/b.md.backup",
                "dir/sub/sub"}
            -> "dir/sub"
      [] p \in {"dir/sub/sub/a.txt", "dir/sub/sub/b.md"} -> "dir/sub/sub"
      [] p \in {"outd/a.txt", "outd/b.md", "outd/E.HTM", "outd/sub"} -> "outd"
      [] p = "outd/sub/c.html" -> "outd/sub"
      [] OTHER -> "."

\* Path(p).suffix, as written in the name
RawSuffix(p) ==
    CASE p \in {"a.txt", "out/a.txt", "dir/a.txt", "outd/a.txt", "dir/g.txt",
                "dir/sub/a.txt", "dir/sub/sub/a.txt"}
            -> ".txt"
      [] p \in {"a.md", "dir/b.md", "outd/b.md", "dir/sub/b.md",
                "dir/sub/sub/b.md"} -> ".md"
      [] p \in {"dir/sub/c.html", "outd/sub/c.html"} -> ".html"
      [] p \in {"dir/E.HTM", "outd/E.HTM"} -> ".HTM"
      [] p \in BackupPaths \cup TreeBackups
                \cup {"dir/n.backup", "dir/sub/a.txt.backup",
                      "dir/sub/b.md.backup"} -> ".backup"
      [] OTHER -> ""

\* A suffix taken as it is spelled, for comparison.
SameSuffix(suffix) == suffix

\* .lower() of a suffix
LowerSuffix(suffix) == IF suffix = ".HTM" THEN ".htm" ELSE suffix

\* Path(p).suffix.lower()
Suffix(p) == LowerSuffix(RawSuffix(p))

\* os.path.exists
Exists(files, p) == files[p].kind # "absent"

\* shutil.copy2(src, dst): opens src for reading, then creates or truncates
\* dst and copies the bytes.  No path the code gives as dst is a directory.
Copy2Raises(files, src, dst) ==
    CASE files[src].kind = "absent" -> "FileNotFoundError"
      [] files[src].kind = "dir" -> "IsADirectoryError"
      [] OTHER -> None

\* A copy of the decoded text rather than of the bytes, for comparison.
CopyText(files, src, dst) ==
    [files EXCEPT ![dst] = File("utf-8", files[src].text)]

Copy2(files, src, dst) == [files EXCEPT ![dst] = files[src]]

\* open(p, 'r', encoding=codec).read(): which codec decodes the file's bytes.
\* ASCII bytes decode under every codec and latin1 decodes any bytes; the
\* bytes of the model's CJK text decode only under the codec that wrote them
\* (gb2312 is a subset of gbk), so that utf-8 or gbk is always the codec used.
Decodes(codec, file) ==
    \/ IsAscii(file.text)
    \/ codec = file.enc
    \/ codec = "gb2312" /\ file.enc = "gbk"
    \/ codec = "latin1"

\* Lines 59-75: utf-8, then the fallback encodings in order.
Encodings == <<"utf-8", "gbk", "gb2312", "latin1">>

ReadRaises(file) ==
    IF file.kind = "dir" THEN "IsADirectoryError"
    ELSE IF file.kind = "absent" THEN "FileNotFoundError"
    ELSE IF \E i \in 1..Len(Encodings) : Decodes(Encodings[i], file) THEN None
    ELSE "ValueError"

ReadText(file) == file.text

\* f.write(new_content) with encoding='utf-8'
Encodable(text) == \A i \in 1..Len(text) : text[i] # Surrogate

\* ------------------------------------------------------------------------
\* replace_urls_in_file and restore_from_backup (specification Spec)
\* ------------------------------------------------------------------------

NoCall == [file_path |-> None, url_mapping |-> <<>>, output_path |-> None,
           backup |-> FALSE]

NoLocals == [content |-> <<>>, new_content |-> <<>>, replacements |-> 0]

NoResultDict == [file_path |-> None, output_path |-> None, success |-> FALSE,
                 replacements |-> 0, backup_path |-> None, error |-> None]

NoRestore == [path |-> None, ok |-> FALSE, n |-> 0]

\* The files a run starts from: a text file in UTF-8 or in GBK, a Markdown
\* file or none, a backup left by an earlier run or none, and a directory.
InitialFileSystems ==
    { [p \in Paths |->
          CASE p = "a.txt" -> txt
            [] p = "a.md" -> md
            [] p = "a.txt.backup" -> bak
            [] p = "d" -> Dir
            [] OTHER -> Absent]
      : txt \in {File("utf-8", <<"a", "b">>), File("gbk", <<"a", Cjk>>)},
        md \in {Absent, File("utf-8", <<"!", "[", "x", "]", "(", "a", ")">>)},
        bak \in {Absent, File("utf-8", <<"o">>)} }

\* The mappings a call is given: none, a plain one, one whose first value is
\* its second key, one whose value UTF-8 cannot encode, one whose value is not
\* a str.
CallMappings ==
    { <<>>,
      << <<<<"a">>, <<"c">>>> >>,
      << <<<<"a">>, <<"b">>>>, <<<<"b">>, <<"c">>>> >>,
      << <<<<"a">>, <<Surrogate>>>> >>,
      << <<<<"a">>, NonStr>> >> }

OutputPaths(file_path) == {None, "", file_path, "out/a.txt"}

FileInit ==
    /\ fs \in InitialFileSystems
    /\ pc = "idle"
    /\ call = NoCall
    /\ locals = NoLocals
    /\ exc = None
    /\ result = NoResultDict
    /\ outcome = "none"
    /\ pre = fs
    /\ log = <<>>
    /\ calls = 0
    /\ restored = NoRestore

\* output_path or file_path
OutputOr(output_path, file_path) ==
    IF output_path = None \/ output_path = "" THEN file_path ELSE output_path

\* A try block that begins after the precondition checks, for comparison.
InTryAfterChecks(step) == step \in {"backup", "read", "transform", "makedirs",
                                    "open", "write", "finish"}

\* Lines 44-103 are the try block: an exception raised in a step inside it
\* goes to the handler of line 104, one raised outside reaches the caller.
InTry(step) == step \in {"check", "backup", "read", "transform", "makedirs",
                         "open", "write", "finish"}

\* raise e, at the step pc
Raise(e) ==
    /\ exc' = e
    /\ IF InTry(pc)
       THEN pc' = "except" /\ outcome' = outcome
       ELSE pc' = "idle" /\ outcome' = "raised"

\* Lines 35-42: the call begins and builds its result dict.
Call(file_path, url_mapping, output_path, backup) ==
    /\ pc = "idle"
    /\ calls < MaxCalls
    /\ calls' = calls + 1
    /\ call' = [file_path |-> file_path, url_mapping |-> url_mapping,
                output_path |-> output_path, backup |-> backup]
    /\ result' = [file_path |-> file_path,
                  output_path |-> OutputOr(output_path, file_path),
                  success |-> FALSE, replacements |-> 0,
                  backup_path |-> None, error |-> None]
    /\ pc' = "check"
    /\ outcome' = "running"
    /\ pre' = fs
    /\ log' = <<>>
    /\ locals' = NoLocals
    /\ exc' = None
    /\ restored' = NoRestore
    /\ UNCHANGED fs
    /\ UNCHANGED <<svars, dvars, xvars>>

\* The check of the path alone, for comparison.
CheckPathOnly ==
    /\ pc = "check"
    /\ IF ~Exists(fs, call.file_path)
       THEN /\ exc' = "FileNotFoundError"
            /\ pc' = "except"
            /\ outcome' = outcome
       ELSE pc' = "backup" /\ UNCHANGED <<exc, outcome>>
    /\ UNCHANGED <<fs, call, locals, result, pre, log, calls,
                   restored>>
    /\ UNCHANGED <<svars, dvars, xvars>>

\* Lines 45-49: the two preconditions.
CheckPreconditions ==
    /\ pc = "check"
    /\ IF ~Exists(fs, call.file_path)
       THEN Raise("FileNotFoundError")
       ELSE IF call.url_mapping = <<>>
       THEN Raise("ValueError: empty mapping")
       ELSE pc' = "backup" /\ UNCHANGED <<exc, outcome>>
    /\ UNCHANGED <<fs, call, locals, result, pre, log, calls,
                   restored>>
    /\ UNCHANGED <<svars, dvars, xvars>>

\* A backup whenever one is asked for, for comparison.
BackupAsked == call.backup

\* Line 52
WantsBackup ==
    call.backup /\ (call.output_path = None \/ call.output_path = call.file_path)

\* A backup that is made only when there is none yet, for comparison.
CreateBackupOnce ==
    /\ pc = "backup"
    /\ IF WantsBackup
       THEN LET backup_path == BackupPath(call.file_path)
                e == Copy2Raises(fs, call.file_path, backup_path)
            IN  IF e # None
                THEN Raise(e) /\ UNCHANGED <<fs, result, log>>
                ELSE /\ fs' = IF Exists(fs, backup_path) THEN fs
                               ELSE Copy2(fs, call.file_path, backup_path)
                     /\ result' = [result EXCEPT !.backup_path = backup_path]
                     /\ log' = Append(log, "backup")
                     /\ pc' = "read"
                     /\ UNCHANGED <<exc, outcome>>
       ELSE pc' = "read" /\ UNCHANGED <<fs, result, log, exc, outcome>>
    /\ UNCHANGED <<call, locals, pre, calls, restored>>
    /\ UNCHANGED <<svars, dvars, xvars>>

\* Lines 52-56: the backup copy.
CreateBackup ==
    /\ pc = "backup"
    /\ IF WantsBackup
       THEN LET backup_path == BackupPath(call.file_path)
                e == Copy2Raises(fs, call.file_path, backup_path)
            IN  IF e # None
                THEN Raise(e) /\ UNCHANGED <<fs, result, log>>
                ELSE /\ fs' = Copy2(fs, call.file_path, backup_path)
                     /\ result' = [result EXCEPT !.backup_path = backup_path]
                     /\ log' = Append(log, "backup")
                     /\ pc' = "read"
                     /\ UNCHANGED <<exc, outcome>>
       ELSE pc' = "read" /\ UNCHANGED <<fs, result, log, exc, outcome>>
    /\ UNCHANGED <<call, locals, pre, calls, restored>>
    /\ UNCHANGED <<svars, dvars, xvars>>

\* Lines 59-75: the file is read and decoded.
ReadFile ==
    /\ pc = "read"
    /\ LET e == ReadRaises(fs[call.file_path])
       IN  IF e # None
           THEN Raise(e) /\ UNCHANGED <<locals, log>>
           ELSE /\ locals' = [locals EXCEPT
                                !.content = ReadText(fs[call.file_path])]
                /\ log' = Append(log, "read")
                /\ pc' = "transform"
                /\ UNCHANGED <<exc, outcome>>
    /\ UNCHANGED <<fs, call, result, pre, calls, restored>>
    /\ UNCHANGED <<svars, dvars, xvars>>

\* Lines 78-86: the strategy the extension of file_path selects.
Dispatch(file_path, text, url_mapping) ==
    LET file_ext == Suffix(file_path)
    IN  IF file_ext \in {".html", ".htm"}
        THEN replace_urls_in_html(text, url_mapping)
        ELSE IF file_ext = ".md"
        THEN replace_urls_in_markdown(text, url_mapping)
        ELSE replace_urls_in_text(text, url_mapping)

Transform ==
    /\ pc = "transform"
    /\ \E r \in {Dispatch(call.file_path, locals.content, call.url_mapping)} :
           IF r.raised
           THEN Raise(r.error) /\ UNCHANGED locals
           ELSE /\ locals' = [locals EXCEPT !.new_content = r.content,
                                            !.replacements = r.count]
                /\ pc' = "makedirs"
                /\ UNCHANGED <<exc, outcome>>
    /\ UNCHANGED <<fs, call, result, pre, log, calls, restored>>
    /\ UNCHANGED <<svars, dvars, xvars>>

\* Lines 89-92: os.makedirs of the output file's directory, exist_ok=True.
MakeDirs ==
    /\ pc = "makedirs"
    /\ LET parent == Dirname(OutputOr(call.output_path, call.file_path))
       IN  IF parent = "." \/ fs[parent].kind = "dir"
           THEN pc' = "open" /\ UNCHANGED <<fs, exc, outcome>>
           ELSE IF fs[parent].kind = "file"
           THEN Raise("FileExistsError") /\ UNCHANGED fs
           ELSE /\ fs' = [fs EXCEPT ![parent] = Dir]
                /\ pc' = "open"
                /\ UNCHANGED <<exc, outcome>>
    /\ UNCHANGED <<call, locals, result, pre, log, calls, restored>>
    /\ UNCHANGED <<svars, dvars, xvars>>

\* Line 94: open(output_file, 'w') creates the file or truncates it.
OpenOutput ==
    /\ pc = "open"
    /\ LET output_file == OutputOr(call.output_path, call.file_path)
       IN  IF fs[output_file].kind = "dir"
           THEN Raise("IsADirectoryError") /\ UNCHANGED <<fs, log>>
           ELSE /\ fs' = [fs EXCEPT ![output_file] = File("utf-8", <<>>)]
                /\ log' = Append(log, "truncate")
                /\ pc' = "write"
                /\ UNCHANGED <<exc, outcome>>
    /\ UNCHANGED <<call, locals, result, pre, calls, restored>>
    /\ UNCHANGED <<svars, dvars, xvars>>

\* A write of the content as read, for comparison.
WriteContentRead ==
    /\ pc = "write"
    /\ fs' = [fs EXCEPT ![OutputOr(call.output_path, call.file_path)] =
                            File("utf-8", locals.content)]
    /\ log' = Append(log, "write")
    /\ pc' = "finish"
    /\ UNCHANGED <<exc, outcome>>
    /\ UNCHANGED <<call, locals, result, pre, calls, restored>>
    /\ UNCHANGED <<svars, dvars, xvars>>

\* Line 95: f.write(new_content), and the file is closed.
WriteOutput ==
    /\ pc = "write"
    /\ LET output_file == OutputOr(call.output_path, call.file_path)
       IN  IF ~Encodable(locals.new_content)
           THEN Raise("UnicodeEncodeError") /\ UNCHANGED <<fs, log>>
           ELSE /\ fs' = [fs EXCEPT ![output_file] =
                                        File("utf-8", locals.new_content)]
                /\ log' = Append(log, "write")
                /\ pc' = "finish"
                /\ UNCHANGED <<exc, outcome>>
    /\ UNCHANGED <<call, locals, result, pre, calls, restored>>
    /\ UNCHANGED <<svars, dvars, xvars>>

\* Lines 97-102 and 108: the result is completed and returned.
Finish ==
    /\ pc = "finish"
    /\ result' = [result EXCEPT !.success = TRUE,
                                !.replacements = locals.replacements]
    /\ pc' = "idle"
    /\ outcome' = "returned"
    /\ UNCHANGED <<fs, call, locals, exc, pre, log, calls, restored>>
    /\ UNCHANGED <<svars, dvars, xvars>>

\* A handler that also reports the count reached so far, for comparison.
ExceptWithCount ==
    /\ pc = "except"
    /\ result' = [result EXCEPT !.error = exc,
                                !.replacements = locals.replacements]
    /\ pc' = "idle"
    /\ outcome' = "returned"
    /\ UNCHANGED <<fs, call, locals, exc, pre, log, calls, restored>>
    /\ UNCHANGED <<svars, dvars, xvars>>

\* Lines 104-108: the handler records the error and the result is returned.
Except ==
    /\ pc = "except"
    /\ result' = [result EXCEPT !.error = exc]
    /\ pc' = "idle"
    /\ outcome' = "returned"
    /\ UNCHANGED <<fs, call, locals, exc, pre, log, calls, restored>>
    /\ UNCHANGED <<svars, dvars, xvars>>

\* The process is interrupted while the call runs.
Crash ==
    /\ pc # "idle"
    /\ pc' = "idle"
    /\ outcome' = "crashed"
    /\ UNCHANGED <<fs, call, locals, exc, result, pre, log, calls,
                   restored>>
    /\ UNCHANGED <<svars, dvars, xvars>>

\* A restore that succeeds whenever the backup path exists, for comparison.
BackupExists(files, file_path) == Exists(files, BackupPath(file_path))

\* Lines 384-397: restore_from_backup(file_path) and what it returns.
RestoreOk(files, file_path) ==
    /\ Exists(files, BackupPath(file_path))
    /\ Copy2Raises(files, BackupPath(file_path), file_path) = None

\* A restore that moves the backup instead of copying it, for comparison.
MoveFromBackup(file_path) ==
    /\ pc = "idle"
    /\ fs' = IF RestoreOk(fs, file_path)
             THEN [Copy2(fs, BackupPath(file_path), file_path)
                      EXCEPT ![BackupPath(file_path)] = Absent]
             ELSE fs
    /\ restored' = [path |-> file_path, ok |-> RestoreOk(fs, file_path),
                    n |-> IF restored.path = file_path THEN 2 ELSE 1]
    /\ UNCHANGED <<pc, call, locals, exc, result, outcome, pre, log,
                   calls>>
    /\ UNCHANGED <<svars, dvars, xvars>>

restore_from_backup(file_path) ==
    /\ pc = "idle"
    /\ fs' = IF RestoreOk(fs, file_path)
             THEN Copy2(fs, BackupPath(file_path), file_path)
             ELSE fs
    /\ restored' = [path |-> file_path, ok |-> RestoreOk(fs, file_path),
                    n |-> IF restored.path = file_path THEN 2 ELSE 1]
    /\ UNCHANGED <<pc, call, locals, exc, result, outcome, pre, log,
                   calls>>
    /\ UNCHANGED <<svars, dvars, xvars>>

FileNext ==
    \/ \E file_path \in SourcePaths, url_mapping \in CallMappings,
          backup \in BOOLEAN :
          \E output_path \in OutputPaths(file_path) :
             Call(file_path, url_mapping, output_path, backup)
    \/ CheckPreconditions
    \/ CreateBackup
    \/ ReadFile
    \/ Transform
    \/ MakeDirs
    \/ OpenOutput
    \/ WriteOutput
    \/ Finish
    \/ Except
    \/ Crash
    \/ \E file_path \in SourcePaths : restore_from_backup(file_path)

\* ------------------------------------------------------------------------
\* replace_urls_in_file as one step, for the callers that run it to its end
\* ------------------------------------------------------------------------

\* os.makedirs(d, exist_ok=True): every missing directory down to d is made;
\* a file in the way raises.
RECURSIVE MakeDirsRaises(_, _)
MakeDirsRaises(files, d) ==
    IF d = "." THEN None
    ELSE IF files[d].kind = "file" THEN "FileExistsError"
    ELSE MakeDirsRaises(files, Dirname(d))

RECURSIVE MakeDirsOf(_, _)
MakeDirsOf(files, d) ==
    IF d = "." THEN files
    ELSE [MakeDirsOf(files, Dirname(d)) EXCEPT ![d] = Dir]

\* What a call that fails with e hands back.
Failed(files, res, e) ==
    [files |-> files, result |-> [res EXCEPT !.error = e]]

\* Lines 89-102: the transformed content is written and the result completed.
WriteAndFinish(files, res, output_file, new_content, replacements) ==
    LET made == MakeDirsOf(files, Dirname(output_file))
        opened == [made EXCEPT ![output_file] = File("utf-8", <<>>)]
    IN  IF MakeDirsRaises(files, Dirname(output_file)) # None
        THEN Failed(files, res, MakeDirsRaises(files, Dirname(output_file)))
        ELSE IF made[output_file].kind = "dir"
        THEN Failed(made, res, "IsADirectoryError")
        ELSE IF ~Encodable(new_content)
        THEN Failed(opened, res, "UnicodeEncodeError")
        ELSE [files |-> [made EXCEPT ![output_file] = File("utf-8", new_content)],
              result |-> [res EXCEPT !.success = TRUE,
                                        !.replacements = replacements]]

\* Lines 66-102: what follows the read, given what the read raised (e) and
\* what the strategy handed back (r).
AfterDispatch(files, res, output_file, e, r) ==
    IF e # None THEN Failed(files, res, e)
    ELSE IF r.raised THEN Failed(files, res, r.error)
    ELSE WriteAndFinish(files, res, output_file, r.content, r.count)

\* Lines 59-102: the file is read, transformed and written.
ReadAndReplace(files, res, file_path, url_mapping, output_path) ==
    AfterDispatch(files, res, OutputOr(output_path, file_path),
                  ReadRaises(files[file_path]),
                  Dispatch(file_path, ReadText(files[file_path]), url_mapping))

\* Lines 35-108: the file system a call leaves and the result it returns.
ReplaceInFile(files, file_path, url_mapping, output_path, backup) ==
    LET res == [file_path |-> file_path,
                   output_path |-> OutputOr(output_path, file_path),
                   success |-> FALSE, replacements |-> 0,
                   backup_path |-> None, error |-> None]
        backs_up == backup /\ (output_path = None \/ output_path = file_path)
    IN  IF ~Exists(files, file_path)
        THEN Failed(files, res, "FileNotFoundError")
        ELSE IF url_mapping = <<>>
        THEN Failed(files, res, "ValueError: empty mapping")
        ELSE IF backs_up
                  /\ Copy2Raises(files, file_path, BackupPath(file_path)) # None
        THEN Failed(files, res,
                    Copy2Raises(files, file_path, BackupPath(file_path)))
        ELSE ReadAndReplace(
                 IF backs_up THEN Copy2(files, file_path, BackupPath(file_path))
                             ELSE files,
                 IF backs_up
                 THEN [res EXCEPT !.backup_path = BackupPath(file_path)]
                 ELSE res,
                 file_path, url_mapping, output_path)

\* ------------------------------------------------------------------------
\* replace_urls_in_directory, cleanup_backups and calls on single files over
\* a directory tree (specification SpecDir)
\* ------------------------------------------------------------------------

\* p is below the directory d.
RECURSIVE IsUnder(_, _)
IsUnder(p, d) ==
    /\ Dirname(p) # "."
    /\ (Dirname(p) = d \/ IsUnder(Dirname(p), d))

\* Everything below d, for comparison.
EntriesBelow(files, d) == {p \in DOMAIN files : IsUnder(p, d) /\ Exists(files, p)}

\* os.listdir(d) / one os.scandir(d) of os.walk: what d holds.
Entries(files, d) == {p \in DOMAIN files : Dirname(p) = d /\ Exists(files, p)}

\* Line 252
supported_formats == {".txt", ".md", ".html", ".htm"}

\* Lines 259 and 272: the filter on the extension.
Supported(p) == Suffix(p) \in supported_formats

\* os.path.join(output_directory, os.path.relpath(file_path, "dir")): the
\* path of the same place below another directory.
Mirror(output_directory, file_path) ==
    IF output_directory = "dir" THEN file_path
    ELSE IF output_directory = "dir/sub"
    THEN CASE file_path = "dir/a.txt" -> "dir/sub/a.txt"
           [] file_path = "dir/b.md" -> "dir/sub/b.md"
           [] file_path = "dir/sub/a.txt" -> "dir/sub/sub/a.txt"
           [] file_path = "dir/sub/b.md" -> "dir/sub/sub/b.md"
    ELSE CASE file_path = "dir/a.txt" -> "outd/a.txt"
           [] file_path = "dir/b.md" -> "outd/b.md"
           [] file_path = "dir/sub/c.html" -> "outd/sub/c.html"
           [] file_path = "dir/E.HTM" -> "outd/E.HTM"

\* Every file written in place, for comparison.
OutputPathInPlace(output_directory, file_path) == None

\* Lines 261-265 and 274-277: 'if output_directory' is false for None and "".
OutputPathFor(output_directory, file_path) ==
    IF output_directory \in {None, ""} THEN None
    ELSE Mirror(output_directory, file_path)

NoDirCall == [directory_path |-> None, output_directory |-> None,
              recursive |-> FALSE, backup |-> FALSE]

NoLast == [op |-> "none", path |-> None, output |-> None, recursive |-> FALSE,
           backup |-> FALSE, ok |-> FALSE, raised |-> None]

\* The trees a behaviour starts from.  The plain one holds exactly a.txt,
\* b.md and sub/c.html.  The other one has b.md, a c.html the parser rejects,
\* a style sheet in E.HTM, an image in README, the backup of an a.txt that is
\* gone, a directory g.txt, and a directory n.backup.
PlainTree ==
    [p \in TreePaths |->
        CASE p \in {"dir", "dir/sub"} -> Dir
          [] p = "dir/a.txt" -> File("utf-8", <<"a", "b">>)
          [] p = "dir/b.md" ->
                File("utf-8", <<"!", "[", "x", "]", "(", "a", ")">>)
          [] p = "dir/sub/c.html" ->
                File("utf-8", <<"<">> \o Img \o <<" ">> \o Src
                                 \o <<"=", "\"", "a", "\"", ">">>)
          [] OTHER -> Absent]

FullTree ==
    [p \in TreePaths |->
        CASE p \in {"dir/g.txt", "dir/n.backup"} -> Dir
          [] p = "dir/a.txt" -> Absent
          [] p = "dir/sub/c.html" ->
                File("utf-8", <<"<">> \o Img \o <<" ">> \o Src
                                 \o <<"=", "\"", "a", "\"", ">",
                                      "<", "!", "[", "x", ">">>)
          [] p = "dir/E.HTM" ->
                File("utf-8", <<"<">> \o Style \o <<">", "a", "a", "b", "<", "/">>
                                 \o Style \o <<">">>)
          [] p = "dir/README" ->
                File("utf-8", <<"<">> \o Img \o <<" ">> \o Src
                                 \o <<"=", "\"", "a", "\"", ">">>)
          [] p = "dir/a.txt.backup" -> File("utf-8", <<"o">>)
          [] OTHER -> PlainTree[p]]

\* The mappings: a plain one, one whose value the Markdown strategy cannot
\* put into its replacement template, none.
PlainMapping == << <<<<"a">>, <<"c">>>> >>

DigitMapping == << <<<<"a">>, <<"1">>>> >>

\* What a behaviour starts from: a tree and the mapping its calls are given.
DirScenarios ==
    { <<PlainTree, PlainMapping>>,
      <<FullTree, DigitMapping>>,
      <<FullTree, <<>>>> }

DirInit ==
    /\ \E scenario \in DirScenarios :
          tree = scenario[1] /\ dmapping = scenario[2]
    /\ dpc = "idle"
    /\ dcall = NoDirCall
    /\ dirsLeft = {}
    /\ filesLeft = {}
    /\ results = <<>>
    /\ taken = <<>>
    /\ before = tree
    /\ last = NoLast
    /\ ops = 0

\* A tree whose output directory lies inside it: a.txt and b.md in dir, and
\* another b.md in dir/sub.
NestedTree ==
    [p \in TreePaths |->
        CASE p \in {"dir", "dir/sub"} -> Dir
          [] p = "dir/a.txt" -> File("utf-8", <<"a", "b">>)
          [] p = "dir/b.md" ->
                File("utf-8", <<"!", "[", "x", "]", "(", "a", ")">>)
          [] p = "dir/sub/b.md" -> File("utf-8", <<"a">>)
          [] OTHER -> Absent]

NestedInit ==
    /\ tree = NestedTree
    /\ dmapping = PlainMapping
    /\ dpc = "idle"
    /\ dcall = NoDirCall
    /\ dirsLeft = {}
    /\ filesLeft = {}
    /\ results = <<>>
    /\ taken = <<>>
    /\ before = tree
    /\ last = NoLast
    /\ ops = 0

\* A call that checks only that the path exists, for comparison.
DirectoryCallIfExists(directory_path, output_directory, recursive, backup) ==
    /\ dpc = "idle"
    /\ ops < MaxOps
    /\ ops' = ops + 1
    /\ before' = tree
    /\ results' = <<>>
    /\ taken' = <<>>
    /\ IF ~Exists(tree, directory_path)
       THEN /\ last' = [NoLast EXCEPT
                          !.op = "directory", !.path = directory_path,
                          !.raised = "FileNotFoundError"]
            /\ dcall' = NoDirCall
            /\ UNCHANGED <<dpc, dirsLeft, filesLeft>>
       ELSE /\ dpc' = "walk"
            /\ dcall' = [directory_path |-> directory_path,
                         output_directory |-> output_directory,
                         recursive |-> recursive, backup |-> backup]
            /\ last' = [op |-> "directory", path |-> directory_path,
                        output |-> output_directory, recursive |-> recursive,
                        backup |-> backup, ok |-> FALSE, raised |-> None]
            /\ dirsLeft' = {}
            /\ filesLeft' = {}
    /\ UNCHANGED <<tree, dmapping>>
    /\ UNCHANGED <<svars, fvars, xvars>>

\* Lines 243-251: the call begins; a missing directory and a path that is
\* not a directory raise to the caller.  With recursive=False the directory
\* is listed here (line 270); os.walk lists it when the loop asks (line 256).
DirectoryCall(directory_path, output_directory, recursive, backup) ==
    /\ dpc = "idle"
    /\ ops < MaxOps
    /\ ops' = ops + 1
    /\ before' = tree
    /\ results' = <<>>
    /\ taken' = <<>>
    /\ IF ~Exists(tree, directory_path) \/ tree[directory_path].kind # "dir"
       THEN /\ last' = [NoLast EXCEPT
                          !.op = "directory", !.path = directory_path,
                          !.raised = IF ~Exists(tree, directory_path)
                                     THEN "FileNotFoundError"
                                     ELSE "ValueError"]
            /\ dcall' = NoDirCall
            /\ UNCHANGED <<dpc, dirsLeft, filesLeft>>
       ELSE /\ dpc' = "walk"
            /\ dcall' = [directory_path |-> directory_path,
                         output_directory |-> output_directory,
                         recursive |-> recursive, backup |-> backup]
            /\ last' = [op |-> "directory", path |-> directory_path,
                        output |-> output_directory, recursive |-> recursive,
                        backup |-> backup, ok |-> FALSE, raised |-> None]
            /\ dirsLeft' = IF recursive THEN {directory_path} ELSE {}
            /\ filesLeft' = IF recursive THEN {}
                            ELSE {p \in Entries(tree, directory_path) :
                                    tree[p].kind = "file" /\ Supported(p)}
    /\ UNCHANGED <<tree, dmapping>>
    /\ UNCHANGED <<svars, fvars, xvars>>

\* Line 256: os.walk lists the next directory: its files are taken next, its
\* directories listed later.  The order among sibling directories is the
\* file system's.
WalkDirectory ==
    /\ dpc = "walk"
    /\ filesLeft = {}
    /\ \E root \in dirsLeft :
          /\ filesLeft' = {p \in Entries(tree, root) :
                              tree[p].kind = "file" /\ Supported(p)}
          /\ dirsLeft' = (dirsLeft \ {root})
                            \cup {p \in Entries(tree, root) : tree[p].kind = "dir"}
    /\ UNCHANGED <<tree, dmapping, dpc, dcall, results, taken, before, last,
                   ops>>
    /\ UNCHANGED <<svars, fvars, xvars>>

\* A loop that gives up at the first failed result, for comparison.
TakeFileUntilFailure ==
    /\ dpc = "walk"
    /\ \E file_path \in filesLeft :
          \E r \in {ReplaceInFile(
                        tree, file_path, dmapping,
                        OutputPathFor(dcall.output_directory, file_path),
                        dcall.backup)} :
              /\ tree' = r.files
              /\ results' = Append(results, r.result)
              /\ taken' = Append(taken, file_path)
              /\ filesLeft' = IF r.result.success
                               THEN filesLeft \ {file_path} ELSE {}
              /\ dirsLeft' = IF r.result.success THEN dirsLeft ELSE {}
    /\ UNCHANGED <<dmapping, dpc, dcall, before, last, ops>>
    /\ UNCHANGED <<svars, fvars, xvars>>

\* Lines 257-268 and 270-280: the next file, in the order of the listing,
\* which is the file system's; its result is appended.
TakeFile ==
    /\ dpc = "walk"
    /\ \E file_path \in filesLeft :
          \E r \in {ReplaceInFile(
                        tree, file_path, dmapping,
                        OutputPathFor(dcall.output_directory, file_path),
                        dcall.backup)} :
              /\ tree' = r.files
              /\ results' = Append(results, r.result)
              /\ taken' = Append(taken, file_path)
              /\ filesLeft' = filesLeft \ {file_path}
    /\ UNCHANGED <<dmapping, dpc, dcall, dirsLeft, before, last, ops>>
    /\ UNCHANGED <<svars, fvars, xvars>>

\* Lines 282-288: nothing is left and the results are returned.
ReturnResults ==
    /\ dpc = "walk"
    /\ filesLeft = {}
    /\ dirsLeft = {}
    /\ dpc' = "idle"
    /\ last' = [last EXCEPT !.ok = TRUE]
    /\ UNCHANGED <<tree, dmapping, dcall, dirsLeft, filesLeft, results, taken,
                   before, ops>>
    /\ UNCHANGED <<svars, fvars, xvars>>

\* A call of replace_urls_in_file from outside the walk, run to its end.
FileCall(file_path, output_path, backup) ==
    /\ dpc = "idle"
    /\ ops < MaxOps
    /\ ops' = ops + 1
    /\ before' = tree
    /\ \E r \in {ReplaceInFile(tree, file_path, dmapping, output_path, backup)} :
           /\ tree' = r.files
           /\ results' = <<r.result>>
           /\ taken' = <<file_path>>
           /\ last' = [op |-> "file", path |-> file_path, output |-> output_path,
                       recursive |-> FALSE, backup |-> backup,
                       ok |-> r.result.success, raised |-> None]
    /\ UNCHANGED <<dmapping, dpc, dcall, dirsLeft, filesLeft>>
    /\ UNCHANGED <<svars, fvars, xvars>>

\* Lines 384-397: restore_from_backup(file_path) over the tree.
RestoreCall(file_path) ==
    /\ dpc = "idle"
    /\ ops < MaxOps
    /\ ops' = ops + 1
    /\ before' = tree
    /\ tree' = IF RestoreOk(tree, file_path)
               THEN Copy2(tree, BackupPath(file_path), file_path)
               ELSE tree
    /\ last' = [op |-> "restore", path |-> file_path, output |-> None,
                recursive |-> FALSE, backup |-> FALSE,
                ok |-> RestoreOk(tree, file_path), raised |-> None]
    /\ results' = <<>>
    /\ taken' = <<>>
    /\ UNCHANGED <<dmapping, dpc, dcall, dirsLeft, filesLeft>>
    /\ UNCHANGED <<svars, fvars, xvars>>

\* The paths cleanup_backups looks at: everything os.walk lists below the
\* directory (lines 410-411), or what os.listdir gives (line 422).
Looked(files, directory_path, recursive) ==
    IF recursive
    THEN {p \in DOMAIN files : Exists(files, p) /\ IsUnder(p, directory_path)}
    ELSE Entries(files, directory_path)

\* Removal of everything whose name ends in .backup, for comparison.
RemovedWithDirectories(files, directory_path, recursive) ==
    IF files[directory_path].kind # "dir" THEN {}
    ELSE {p \in Looked(files, directory_path, recursive) :
            RawSuffix(p) = ".backup"}

\* Lines 412-416 and 423-428: the paths os.remove is called on.  os.walk
\* hands directories over in dirs, not in files; os.path.isfile guards the
\* other branch.
Removed(files, directory_path, recursive) ==
    IF files[directory_path].kind # "dir" THEN {}
    ELSE {p \in Looked(files, directory_path, recursive) :
            RawSuffix(p) = ".backup" /\ files[p].kind = "file"}

\* Lines 399-433: cleanup_backups(directory_path, recursive).  os.walk of a
\* path that is no directory yields nothing; os.listdir of one raises.
CleanupCall(directory_path, recursive) ==
    /\ dpc = "idle"
    /\ ops < MaxOps
    /\ ops' = ops + 1
    /\ before' = tree
    /\ tree' = [p \in DOMAIN tree |->
                  IF p \in Removed(tree, directory_path, recursive)
                  THEN Absent ELSE tree[p]]
    /\ last' = [op |-> "cleanup", path |-> directory_path, output |-> None,
                recursive |-> recursive, backup |-> FALSE,
                ok |-> recursive \/ tree[directory_path].kind = "dir",
                raised |-> IF recursive \/ tree[directory_path].kind = "dir"
                           THEN None
                           ELSE IF Exists(tree, directory_path)
                           THEN "NotADirectoryError"
                           ELSE "FileNotFoundError"]
    /\ results' = <<>>
    /\ taken' = <<>>
    /\ UNCHANGED <<dmapping, dpc, dcall, dirsLeft, filesLeft>>
    /\ UNCHANGED <<svars, fvars, xvars>>

\* The arguments the calls are given.
DirectoryArgs == {"dir", "dir/a.txt", "nodir"}

OutputDirectories == {None, "", "dir", "outd"}

FileArgs == TreeFiles \cup {"nodir"}

FileOutputs == {None, "outd/b.md"}

RestoreArgs == TreeFiles \cup {"dir/n"}

CleanupArgs == {"dir", "dir/sub", "nodir"}

\* The output directories of the calls on the nested tree: in place, or the
\* subdirectory of dir.
NestedOutputs == {None, "dir/sub"}

\* A call on the nested tree.  The paths of the model end two levels below
\* dir/sub, so no call begins once dir/sub/sub exists.
NestedCall(output_directory, recursive, backup) ==
    /\ ~Exists(tree, "dir/sub/sub")
    /\ DirectoryCall("dir", output_directory, recursive, backup)

NestedNext ==
    \/ \E output_directory \in NestedOutputs,
          recursive \in BOOLEAN, backup \in BOOLEAN :
          NestedCall(output_directory, recursive, backup)
    \/ WalkDirectory
    \/ TakeFile
    \/ ReturnResults

DirNext ==
    \/ \E directory_path \in DirectoryArgs,
          output_directory \in OutputDirectories,
          recursive \in BOOLEAN, backup \in BOOLEAN :
          DirectoryCall(directory_path, output_directory, recursive, backup)
    \/ WalkDirectory
    \/ TakeFile
    \/ ReturnResults
    \/ \E file_path \in FileArgs, output_path \in FileOutputs,
          backup \in BOOLEAN :
          FileCall(file_path, output_path, backup)
    \/ \E file_path \in RestoreArgs : RestoreCall(file_path)
    \/ \E directory_path \in CleanupArgs, recursive \in BOOLEAN :
          CleanupCall(directory_path, recursive)

\* ------------------------------------------------------------------------
\* create_replacement_report (specification SpecReport)
\* ------------------------------------------------------------------------

\* A line of the report is the sequence of the pieces its f-string joins;
\* the report is the sequence of its lines, which the code joins with "\n".
\* The Chinese labels of the source are given in English.

Digit(d) == <<"0", "1", "2", "3", "4", "5", "6", "7", "8", "9">>[d + 1]

\* str(n) of a natural number, as f"{n}" formats it.
RECURSIVE Decimal(_)
Decimal(n) ==
    IF n < 10 THEN <<Digit(n)>>
    ELSE Decimal(n \div 10) \o <<Digit(n % 10)>>

Rule(char, n) == <<char, "*", Digit(n \div 10), Digit(n % 10)>>

BlankLine == <<>>

RECURSIVE SumReplacements(_, _)
SumReplacements(files, i) ==
    IF i > Len(files) THEN 0
    ELSE files[i].replacements + SumReplacements(files, i + 1)

FileLine(r) ==
    <<"  ", r.file_path, " -> replaced ">> \o Decimal(r.replacements)
        \o <<" URLs">>

BackupLine(r) == <<"    backup: ", r.backup_path>>

ErrorLine(r) == <<"  ", r.file_path, " - error: ", r.error>>

\* The loop of lines 317-320.
RECURSIVE SuccessLines(_, _)
SuccessLines(successful_files, i) ==
    IF i > Len(successful_files) THEN <<>>
    ELSE LET r == successful_files[i]
         IN  <<FileLine(r)>>
                 \o (IF r.backup_path # None THEN <<BackupLine(r)>> ELSE <<>>)
                 \o SuccessLines(successful_files, i + 1)

\* The loop of lines 326-327.
RECURSIVE FailureLines(_, _)
FailureLines(failed_files, i) ==
    IF i > Len(failed_files) THEN <<>>
    ELSE <<ErrorLine(failed_files[i])>> \o FailureLines(failed_files, i + 1)

\* A reading of line 299 that takes a result with a backup for a success.
IsSuccessOrBackedUp(r) == r.success \/ r.backup_path # None

IsSuccess(r) == r.success

IsFailure(r) == ~r.success

create_replacement_report(result_list) ==
    LET successful_files == SelectSeq(result_list, IsSuccess)
        failed_files == SelectSeq(result_list, IsFailure)
        total_replacements == SumReplacements(successful_files, 1)
    IN  << Rule("=", 50),
           <<"URL replacement report">>,
           Rule("=", 50),
           <<"total files: ">> \o Decimal(Len(result_list)),
           <<"successful: ">> \o Decimal(Len(successful_files)),
           <<"failed: ">> \o Decimal(Len(failed_files)),
           <<"total replacements: ">> \o Decimal(total_replacements),
           BlankLine >>
        \o (IF successful_files # <<>>
            THEN <<<<"successful files:">>, Rule("-", 30)>>
                     \o SuccessLines(successful_files, 1) \o <<BlankLine>>
            ELSE <<>>)
        \o (IF failed_files # <<>>
            THEN <<<<"failed files:">>, Rule("-", 30)>>
                     \o FailureLines(failed_files, 1) \o <<BlankLine>>
            ELSE <<>>)
        \o <<Rule("=", 50)>>

\* The results replace_urls_in_file hands back: a file rewritten in place
\* with a backup, a file written elsewhere with nothing to replace, a file
\* that is missing, and a Markdown file whose replacement raised after its
\* backup was made.
ResultRecords ==
    { [file_path |-> "a.txt", output_path |-> "a.txt", success |-> TRUE,
       replacements |-> 7, backup_path |-> "a.txt.backup", error |-> None],
      [file_path |-> "c.html", output_path |-> "out/c.html", success |-> TRUE,
       replacements |-> 5, backup_path |-> None, error |-> None],
      [file_path |-> "nofile", output_path |-> "nofile", success |-> FALSE,
       replacements |-> 0, backup_path |-> None, error |-> "FileNotFound"],
      [file_path |-> "b.md", output_path |-> "b.md", success |-> FALSE,
       replacements |-> 0, backup_path |-> "b.md.backup",
       error |-> "invalid group reference"] }

ResultLists ==
    UNION { [1..n -> ResultRecords] : n \in 0..MaxResults }

ReportInit ==
    /\ rResults \in ResultLists
    /\ report = <<>>
    /\ rpc = "drawn"

ReportCall ==
    /\ rpc = "drawn"
    /\ report' = create_replacement_report(rResults)
    /\ rpc' = "reported"
    /\ UNCHANGED <<rResults, svars, fvars, dvars, tvars, yvars>>

ReportNext == ReportCall

\* ------------------------------------------------------------------------
\* validate_url_mapping
\* ------------------------------------------------------------------------

\* "not url or not isinstance(url, str)" of lines 355 and 359.
Falsy(url) == url = <<>> \/ ~IsStr(url)

ValidItem(item) == ~Falsy(Old(item)) /\ ~Falsy(New(item))

\* The result of lines 343-373; invalid_mappings and warnings by the
\* positions of their items.
validate_url_mapping(url_mapping) ==
    LET invalid_mappings ==
            { i \in 1..Len(url_mapping) : ~ValidItem(url_mapping[i]) }
        valid_mappings ==
            { i \in 1..Len(url_mapping) : ValidItem(url_mapping[i]) }
    IN  [valid |-> invalid_mappings = {},
         total_mappings |-> Len(url_mapping),
         valid_mappings |-> Cardinality(valid_mappings),
         invalid_mappings |-> invalid_mappings,
         warnings |-> { i \in valid_mappings :
                          Old(url_mapping[i]) = New(url_mapping[i]) }]

\* ------------------------------------------------------------------------
\* download_single_image and download_images_batch of
\* src/image_downloader.py (specification SpecDownload)
\* ------------------------------------------------------------------------

\* The URLs of the model: two that end in the same file name, and a third.
DownloadUrls == {"http://a/img.jpg", "http://b/img.jpg", "http://a/pic.png"}

\* sanitize_filename(get_filename_from_url(url)): the last segment of the
\* path of the URL.
Filename(url) ==
    CASE url \in {"http://a/img.jpg", "http://b/img.jpg"} -> "img.jpg"
      [] url = "http://a/pic.png" -> "pic.png"

\* A path in the download directory: os.path.join(DOWNLOAD_DIR, filename)
\* when n is 0, else f"{name}_{n}{ext}".
Numbered(filename, n) == <<filename, n>>

NoPath == <<None, 0>>

NoDownload == [url |-> None, success |-> FALSE, local_path |-> NoPath,
               error |-> None]

Calls == 1..Len(urls)

\* The download directories a batch starts with: empty, or holding img.jpg.
InitialDisks == {{}, {Numbered("img.jpg", 0)}}

UrlLists ==
    { u \in UNION { [1..n -> DownloadUrls] : n \in 0..MaxUrls } :
        \A i, j \in DOMAIN u : i # j => u[i] # u[j] }

\* Lines 146-156: the batch is given its URLs and submits one call for each.
DownloadInit ==
    /\ urls \in UrlLists
    /\ max_workers \in {1, 5}
    /\ disk \in InitialDisks
    /\ tpc = [c \in Calls |-> "queued"]
    /\ local_path = [c \in Calls |-> NoPath]
    /\ counter = [c \in Calls |-> 0]
    /\ tresult = [c \in Calls |-> NoDownload]
    /\ collected = <<>>
    /\ bpc = "running"

Running == { c \in Calls : tpc[c] \notin {"queued", "done"} }

\* Lines 44-64: a thread of the pool takes the next call submitted; the call
\* builds its result dict and its first local_path.
StartDownload(c) ==
    /\ bpc = "running"
    /\ tpc[c] = "queued"
    /\ \A b \in 1..(c - 1) : tpc[b] # "queued"
    /\ Cardinality(Running) < max_workers
    /\ tpc' = [tpc EXCEPT ![c] = "check"]
    /\ local_path' = [local_path EXCEPT ![c] = Numbered(Filename(urls[c]), 0)]
    /\ counter' = [counter EXCEPT ![c] = 1]
    /\ tresult' = [tresult EXCEPT ![c] = [NoDownload EXCEPT !.url = urls[c]]]
    /\ UNCHANGED <<urls, max_workers, disk, collected, bpc>>
    /\ UNCHANGED <<svars, fvars, dvars, rvars, yvars>>

\* Lines 65-68: one test of the while loop.
CheckExists(c) ==
    /\ tpc[c] = "check"
    /\ IF local_path[c] \in disk
       THEN /\ local_path' = [local_path EXCEPT
                                ![c] = Numbered(Filename(urls[c]), counter[c])]
            /\ counter' = [counter EXCEPT ![c] = counter[c] + 1]
            /\ tpc' = tpc
       ELSE /\ tpc' = [tpc EXCEPT ![c] = "get"]
            /\ UNCHANGED <<local_path, counter>>
    /\ UNCHANGED <<urls, max_workers, disk, tresult, collected, bpc>>
    /\ UNCHANGED <<svars, fvars, dvars, rvars, yvars>>

\* Lines 73-88 and 120-132: the request; it answers with an image, or the
\* call fails.
GetResponse(c) ==
    /\ tpc[c] = "get"
    /\ \E answer \in {"image", "RequestException"} :
          IF answer = "image"
          THEN tpc' = [tpc EXCEPT ![c] = "save"] /\ tresult' = tresult
          ELSE /\ tpc' = [tpc EXCEPT ![c] = "done"]
               /\ tresult' = [tresult EXCEPT ![c].error = answer]
    /\ UNCHANGED <<urls, max_workers, disk, local_path, counter, collected,
                   bpc>>
    /\ UNCHANGED <<svars, fvars, dvars, rvars, yvars>>

\* Lines 91-96: open(local_path, 'wb') creates the file, or truncates the one
\* that is there, and the chunks are written.
SaveFile(c) ==
    /\ tpc[c] = "save"
    /\ disk' = disk \cup {local_path[c]}
    /\ tpc' = [tpc EXCEPT ![c] = "verify"]
    /\ UNCHANGED <<urls, max_workers, local_path, counter, tresult, collected,
                   bpc>>
    /\ UNCHANGED <<svars, fvars, dvars, rvars, yvars>>

\* Lines 104-116 and 125-132: the image is verified; a file that is no image
\* is removed and the call fails.
VerifyImage(c) ==
    /\ tpc[c] = "verify"
    /\ \E verdict \in {"image", "ValueError"} :
          IF verdict = "image" /\ local_path[c] \in disk
          THEN /\ tresult' = [tresult EXCEPT ![c].success = TRUE,
                                             ![c].local_path = local_path[c]]
               /\ disk' = disk
          ELSE /\ tresult' = [tresult EXCEPT ![c].error = "ValueError"]
               /\ disk' = disk \ {local_path[c]}
    /\ tpc' = [tpc EXCEPT ![c] = "done"]
    /\ UNCHANGED <<urls, max_workers, local_path, counter, collected, bpc>>
    /\ UNCHANGED <<svars, fvars, dvars, rvars, yvars>>

Collected == { collected[i] : i \in 1..Len(collected) }

\* Lines 160-162: as_completed hands over a call that is done.
Collect(c) ==
    /\ bpc = "running"
    /\ tpc[c] = "done"
    /\ c \notin Collected
    /\ collected' = Append(collected, c)
    /\ UNCHANGED <<urls, max_workers, disk, tpc, local_path, counter, tresult,
                   bpc>>
    /\ UNCHANGED <<svars, fvars, dvars, rvars, yvars>>

\* Lines 146-147 and 172-179: the results are returned.
BatchReturn ==
    /\ bpc = "running"
    /\ Collected = Calls
    /\ bpc' = "returned"
    /\ UNCHANGED <<urls, max_workers, disk, tpc, local_path, counter, tresult,
                   collected>>
    /\ UNCHANGED <<svars, fvars, dvars, rvars, yvars>>

DownloadNext ==
    \/ \E c \in Calls : StartDownload(c)
    \/ \E c \in Calls : CheckExists(c)
    \/ \E c \in Calls : GetResponse(c)
    \/ \E c \in Calls : SaveFile(c)
    \/ \E c \in Calls : VerifyImage(c)
    \/ \E c \in Calls : Collect(c)
    \/ BatchReturn

\* ------------------------------------------------------------------------
\* retry_failed_downloads of src/image_downloader.py and
\* retry_failed_uploads of src/wechat_uploader.py (specification SpecRetry)
\* ------------------------------------------------------------------------

\* The items of the model: the URLs of the downloads, the local paths of the
\* uploads.
RetryItems == 1..MaxItems

\* The lists of results a retry is given: one result for each of the first
\* items, failed or not.
GivenResults ==
    UNION { { [i \in 1..n |-> [item |-> i, success |-> flags[i]]] :
                flags \in [1..n -> BOOLEAN] } : n \in 0..MaxItems }

\* [r['url'] for r in results if not r['success']]
RECURSIVE FailedOf(_, _)
FailedOf(result_list, i) ==
    IF i > Len(result_list) THEN <<>>
    ELSE (IF result_list[i].success THEN <<>> ELSE <<result_list[i].item>>)
             \o FailedOf(result_list, i + 1)

ItemsOf(result_list) == { result_list[i].item : i \in 1..Len(result_list) }

InOrder(result_list, item_list) ==
    \A i \in 1..Len(item_list) : result_list[i].item = item_list[i]

\* What a batch hands back for the items it is given: one result for each,
\* failed or not.  download_images_batch hands them back in the order the
\* downloads end, upload_images_batch in the order of the items.
BatchResults(which, item_list) ==
    { r \in [1..Len(item_list) ->
                [item : { item_list[i] : i \in 1..Len(item_list) },
                 success : BOOLEAN]] :
        /\ Cardinality(ItemsOf(r)) = Len(item_list)
        /\ which = "upload" => InOrder(r, item_list) }

\* max_retries=None, the default of the parameter, among the numbers.
NoMaxRetries == 0 - 1

RetryInit ==
    /\ kind \in {"download", "upload"}
    /\ failed_results \in GivenResults
    /\ max_retries \in {NoMaxRetries} \cup (0..MaxRetries)
    /\ failed_items = <<>>
    /\ attempt = 0
    /\ retry_results = <<>>
    /\ rounds = <<>>
    /\ ypc = "called"

\* Lines 191-200 (305-327 of the uploader): the default of max_retries, the
\* failed items; nothing failed: an empty list is returned.
RetryBegin ==
    /\ ypc = "called"
    /\ max_retries' = IF max_retries = NoMaxRetries THEN MAX_RETRIES
                      ELSE max_retries
    /\ failed_items' = FailedOf(failed_results, 1)
    /\ ypc' = IF FailedOf(failed_results, 1) = <<>> THEN "returned" ELSE "loop"
    /\ UNCHANGED <<kind, failed_results, attempt, retry_results, rounds>>
    /\ UNCHANGED <<svars, fvars, dvars, rvars, tvars>>

\* A round that goes on with the items it was given, for comparison.
RetryRoundOfAll ==
    /\ ypc = "loop"
    /\ attempt < max_retries
    /\ failed_items # <<>>
    /\ \E current_results \in BatchResults(kind, failed_items) :
          /\ retry_results' = retry_results \o current_results
          /\ rounds' = Append(rounds, current_results)
    /\ failed_items' = failed_items
    /\ attempt' = attempt + 1
    /\ UNCHANGED <<kind, failed_results, max_retries, ypc>>
    /\ UNCHANGED <<svars, fvars, dvars, rvars, tvars>>

\* Lines 202-217 (329-344): one round: the batch of the failed items, its
\* results appended, its failures kept for the next round.
RetryRound ==
    /\ ypc = "loop"
    /\ attempt < max_retries
    /\ failed_items # <<>>
    /\ \E current_results \in BatchResults(kind, failed_items) :
          /\ retry_results' = retry_results \o current_results
          /\ failed_items' = FailedOf(current_results, 1)
          /\ rounds' = Append(rounds, current_results)
    /\ attempt' = attempt + 1
    /\ UNCHANGED <<kind, failed_results, max_retries, ypc>>
    /\ UNCHANGED <<svars, fvars, dvars, rvars, tvars>>

\* Lines 202-204 and 219 (329-331 and 346): the range is used up, or nothing
\* is left failed, and retry_results is returned.
RetryReturn ==
    /\ ypc = "loop"
    /\ attempt >= max_retries \/ failed_items = <<>>
    /\ ypc' = "returned"
    /\ UNCHANGED <<kind, failed_results, max_retries, failed_items, attempt,
                   retry_results, rounds>>
    /\ UNCHANGED <<svars, fvars, dvars, rvars, tvars>>

RetryNext == RetryBegin \/ RetryRound \/ RetryReturn

\* ------------------------------------------------------------------------
\* Specifications
\* ------------------------------------------------------------------------

StrategyIdle ==
    /\ sStrategy = "text"
    /\ sContent = <<>>
    /\ sMapping = <<>>
    /\ sStage = "idle"
    /\ sFirst = NoResult
    /\ sSecond = NoResult

FileIdle ==
    /\ fs = [p \in Paths |-> Absent]
    /\ pc = "off"
    /\ call = NoCall
    /\ locals = NoLocals
    /\ exc = None
    /\ result = NoResultDict
    /\ outcome = "none"
    /\ pre = fs
    /\ log = <<>>
    /\ calls = 0
    /\ restored = NoRestore

DirIdle ==
    /\ tree = <<>>
    /\ dmapping = <<>>
    /\ dpc = "off"
    /\ dcall = NoDirCall
    /\ dirsLeft = {}
    /\ filesLeft = {}
    /\ results = <<>>
    /\ taken = <<>>
    /\ before = tree
    /\ last = NoLast
    /\ ops = 0

ReportIdle ==
    /\ rResults = <<>>
    /\ report = <<>>
    /\ rpc = "off"

DownloadIdle ==
    /\ urls = <<>>
    /\ max_workers = 0
    /\ disk = {}
    /\ tpc = <<>>
    /\ local_path = <<>>
    /\ counter = <<>>
    /\ tresult = <<>>
    /\ collected = <<>>
    /\ bpc = "off"

RetryIdle ==
    /\ kind = "none"
    /\ failed_results = <<>>
    /\ max_retries = 0
    /\ failed_items = <<>>
    /\ attempt = 0
    /\ retry_results = <<>>
    /\ rounds = <<>>
    /\ ypc = "off"

ExtraIdle == ReportIdle /\ DownloadIdle /\ RetryIdle

Init == FileInit /\ StrategyIdle /\ DirIdle /\ ExtraIdle

Next == FileNext

Spec == Init /\ [][Next]_vars

InitStrategy == StrategyInit /\ FileIdle /\ DirIdle /\ ExtraIdle

SpecStrategy == InitStrategy /\ [][StrategyNext]_vars

InitHtml == HtmlInit /\ FileIdle /\ DirIdle /\ ExtraIdle

SpecHtml == InitHtml /\ [][StrategyNext]_vars

InitDir == DirInit /\ StrategyIdle /\ FileIdle /\ ExtraIdle

SpecDir == InitDir /\ [][DirNext]_vars

InitNested == NestedInit /\ StrategyIdle /\ FileIdle /\ ExtraIdle

SpecNested == InitNested /\ [][NestedNext]_vars

InitReport ==
    /\ ReportInit
    /\ StrategyIdle /\ FileIdle /\ DirIdle /\ DownloadIdle /\ RetryIdle

InitDownload ==
    /\ DownloadInit
    /\ StrategyIdle /\ FileIdle /\ DirIdle /\ ReportIdle /\ RetryIdle

InitRetry ==
    /\ RetryInit
    /\ StrategyIdle /\ FileIdle /\ DirIdle /\ ReportIdle /\ DownloadIdle

\* Each step of the loop is taken in the end: the loop runs in one thread,
\* its batches return (every request has a timeout), and it sleeps for a
\* finite time between rounds.
SpecRetry == InitRetry /\ [][RetryNext]_vars /\ WF_vars(RetryNext)

SpecDownload == InitDownload /\ [][DownloadNext]_vars

SpecReport == InitReport /\ [][ReportNext]_vars

\* ------------------------------------------------------------------------
\* Notions the claims about the strategies are stated with
\* ------------------------------------------------------------------------

Indexes(url_mapping) == 1..Len(url_mapping)

RECURSIVE SumOfCounts(_, _, _)
SumOfCounts(text, url_mapping, i) ==
    IF i > Len(url_mapping) THEN 0
    ELSE Count(text, Old(url_mapping[i])) + SumOfCounts(text, url_mapping, i + 1)

\* text with every occurrence of a key replaced by that key's value, in one
\* scan from the left (keys are not empty).
RECURSIVE ReplaceEvery(_, _, _)
ReplaceEvery(text, url_mapping, i) ==
    IF i > Len(text) THEN <<>>
    ELSE IF \E n \in Indexes(url_mapping) : MatchAt(text, Old(url_mapping[n]), i)
    THEN LET n == CHOOSE n \in Indexes(url_mapping) :
                    /\ MatchAt(text, Old(url_mapping[n]), i)
                    /\ \A m \in 1..(n - 1) : ~MatchAt(text, Old(url_mapping[m]), i)
         IN  New(url_mapping[n])
                \o ReplaceEvery(text, url_mapping, i + Len(Old(url_mapping[n])))
    ELSE <<text[i]>> \o ReplaceEvery(text, url_mapping, i + 1)

\* Some key occurs as a substring of another key's value.
KeyInOtherValue(url_mapping) ==
    \E i, j \in Indexes(url_mapping) :
        i # j /\ Contains(New(url_mapping[j]), Old(url_mapping[i]))

\* Key k and value v overlap: one contains the other (an empty v is contained
\* in k), or an end of one is the beginning of the other.
Overlap(k, v) ==
    \/ Contains(v, k)
    \/ Contains(k, v)
    \/ \E n \in 1..Len(v) :
          /\ n <= Len(k)
          /\ \/ SubSeq(v, 1, n) = SubSeq(k, Len(k) - n + 1, Len(k))
             \/ SubSeq(v, Len(v) - n + 1, Len(v)) = SubSeq(k, 1, n)

KeyOverlapsOtherValue(url_mapping) ==
    \E i, j \in Indexes(url_mapping) :
        i # j /\ Overlap(Old(url_mapping[i]), New(url_mapping[j]))

\* Two occurrences of different keys share a character of text.
OccurrencesOverlap(text, url_mapping) ==
    \E i, j \in Indexes(url_mapping) :
        /\ i # j
        /\ \E p, q \in 1..Len(text) :
              /\ MatchAt(text, Old(url_mapping[i]), p)
              /\ MatchAt(text, Old(url_mapping[j]), q)
              /\ p <= q + Len(Old(url_mapping[j])) - 1
              /\ q <= p + Len(Old(url_mapping[i])) - 1

TextApplied == sStrategy = "text" /\ sStage \in {"once", "twice"}

EveryOccurrenceReplaced ==
    /\ ~sFirst.raised
    /\ sFirst.content = ReplaceEvery(sContent, sMapping, 1)
    /\ sFirst.count = SumOfCounts(sContent, sMapping, 1)

\* C4 as claimed: when no key occurs in another key's value, the text strategy
\* returns the content with every occurrence of every key replaced and the
\* number of occurrences of the keys in the content.
C4_AsClaimed ==
    (TextApplied /\ ~KeyInOtherValue(sMapping)) => EveryOccurrenceReplaced

\* C4, amended: when no key overlaps another key's value (so that no
\* replacement makes or completes an occurrence of another key) and no two
\* occurrences of different keys overlap in the content, the text strategy
\* returns the content with every occurrence of every key replaced by its
\* value, and the number of occurrences of the keys in the content.
C4_TextReplacesEveryOccurrence ==
    (/\ TextApplied
     /\ ~KeyOverlapsOtherValue(sMapping)
     /\ ~OccurrencesOverlap(sContent, sMapping))
        => EveryOccurrenceReplaced

\* Two keys, each occurring in the content, both replaced and counted.
C4_Witness ==
    /\ TextApplied
    /\ Len(sMapping) = 2
    /\ ~KeyOverlapsOtherValue(sMapping)
    /\ ~OccurrencesOverlap(sContent, sMapping)
    /\ \A i \in Indexes(sMapping) : Contains(sContent, Old(sMapping[i]))
    /\ sFirst.count = 2
    /\ sFirst.content # sContent

\* No value of the mapping equals a key of it.
NoValueIsKey(url_mapping) ==
    \A i, j \in Indexes(url_mapping) : New(url_mapping[j]) # Old(url_mapping[i])

ContainsNoCase(s, k) == \E i \in 1..(Len(s) + 1) : MatchAtNoCase(s, k, i)

\* No key is left in text, as the strategy compares: exactly for the text
\* strategy, ignoring case for the Markdown strategy (its <img> pattern does).
KeyFree(strategy, text, url_mapping) ==
    \A i \in Indexes(url_mapping) :
        IF strategy = "text"
        THEN ~Contains(text, Old(url_mapping[i]))
        ELSE ~ContainsNoCase(text, Old(url_mapping[i]))

SecondChangesNothing ==
    /\ ~sSecond.raised
    /\ sSecond.content = sFirst.content
    /\ sSecond.count = 0

HasReturned == outcome = "returned"

\* The call was made in place: output_path unset, or equal to the path.
InPlace == call.output_path = None \/ call.output_path = call.file_path

\* The file the call writes: output_path, or the path when that is unset or
\* empty.
EffectiveOutput ==
    IF call.output_path \in {None, ""} THEN call.file_path ELSE call.output_path

SourceWasFile == pre[call.file_path].kind = "file"

BackupMade == \E i \in 1..Len(log) : log[i] = "backup"

\* No restore_from_backup has run since the call began.
NotRestored == restored.n = 0

\* C1: after an in-place call with backup=true and a non-empty mapping on a
\* file, restore_from_backup(path) returns true and leaves the path with the
\* bytes it had just before the call.
C1_RestoreRoundTrip ==
    (/\ HasReturned
     /\ call.backup
     /\ InPlace
     /\ call.url_mapping # <<>>
     /\ SourceWasFile
     /\ restored.path = call.file_path)
        => (restored.ok /\ fs[call.file_path] = pre[call.file_path])

\* A GBK file was rewritten in place, as UTF-8, and then restored.
C1_Witness ==
    /\ HasReturned
    /\ result.success
    /\ result.replacements >= 1
    /\ call.backup
    /\ InPlace
    /\ pre[call.file_path].kind = "file"
    /\ pre[call.file_path].enc = "gbk"
    /\ restored.path = call.file_path
    /\ restored.ok
    /\ fs[call.file_path] = pre[call.file_path]

\* C2 as claimed: when the call returns success=false, no path differs from
\* its state before the call, except a backup that existed before the call.
C2_FailureLeavesFilesAlone ==
    (HasReturned /\ ~result.success /\ NotRestored)
        => \A p \in Paths :
              fs[p] # pre[p] => (p \in BackupPaths /\ Exists(pre, p))

\* The content the extension of the path selects a strategy to make of the
\* content the path had when the call began.
Selected ==
    IF Suffix(call.file_path) = ".md"
    THEN replace_urls_in_markdown(ReadText(pre[call.file_path]), call.url_mapping)
    ELSE replace_urls_in_text(ReadText(pre[call.file_path]), call.url_mapping)

\* C3 as claimed: when the call returns success=true, the effective output
\* file holds the input with every occurrence of every key replaced by its
\* value.
C3_AsClaimed ==
    (HasReturned /\ result.success /\ NotRestored)
        => /\ fs[EffectiveOutput].kind = "file"
           /\ fs[EffectiveOutput].text =
                  ReplaceEvery(ReadText(pre[call.file_path]), call.url_mapping, 1)

\* C3, amended: when the call returns success=true, the effective output file
\* exists and holds, in UTF-8, what the strategy selected by the extension of
\* the path returns for the content read from the path.
C3_OutputIsStrategyResult ==
    (HasReturned /\ result.success /\ NotRestored)
        => /\ ~Selected.raised
           /\ fs[EffectiveOutput] = File("utf-8", Selected.content)
           /\ result.replacements = Selected.count

\* A successful call wrote a changed content to another file.
C3_Witness ==
    /\ HasReturned
    /\ result.success
    /\ NotRestored
    /\ result.replacements >= 1
    /\ EffectiveOutput # call.file_path
    /\ fs[EffectiveOutput].kind = "file"
    /\ fs[EffectiveOutput].text # ReadText(pre[call.file_path])

\* C6: no exception of a call reaches the caller; when one was raised, the
\* call returns success=false with the exception's message as the error.
C6_NeverRaises ==
    /\ outcome # "raised"
    /\ (HasReturned /\ exc # None) => (~result.success /\ result.error = exc)
    /\ (HasReturned /\ ~result.success) => exc # None

\* A call returned after its write raised.
C6_Witness ==
    /\ HasReturned
    /\ ~result.success
    /\ result.error = "UnicodeEncodeError"

\* The call made <path>.backup and recorded it in its result.
BackupRecorded == BackupMade /\ result.backup_path = BackupPath(call.file_path)

\* C7 as claimed: the call makes <path>.backup and sets backup_path exactly
\* when backup is true and output_path is unset or equals the path.
C7_AsClaimed == HasReturned => (BackupRecorded <=> (call.backup /\ InPlace))

\* C7, amended: a call on an existing regular file with a non-empty mapping
\* makes <path>.backup and sets backup_path exactly when backup is true and
\* output_path is unset or equals the path, and no other call makes a backup
\* or sets backup_path; the copy is the first thing a call does to any file,
\* before the read and the write, and holds the bytes the path had at call
\* time.
C7_BackupExactlyWhenInPlace ==
    /\ (HasReturned /\ SourceWasFile /\ call.url_mapping # <<>>)
          => (BackupRecorded <=> (call.backup /\ InPlace))
    /\ (outcome \in {"running", "returned", "crashed"})
          => /\ (BackupMade \/ result.backup_path # None)
                   => (/\ BackupRecorded
                       /\ call.backup /\ InPlace
                       /\ SourceWasFile /\ call.url_mapping # <<>>)
             /\ BackupMade
                   => (/\ log[1] = "backup"
                       /\ \A i \in 2..Len(log) : log[i] # "backup"
                       /\ fs[BackupPath(call.file_path)] = pre[call.file_path])

\* A backup was made and the source was then read and overwritten.
C7_Witness ==
    /\ HasReturned
    /\ BackupRecorded
    /\ log = <<"backup", "read", "truncate", "write">>
    /\ NotRestored
    /\ fs[call.file_path] # pre[call.file_path]
    /\ fs[BackupPath(call.file_path)] = pre[call.file_path]

Overwriting == \E i \in 1..Len(log) : log[i] = "truncate"

\* C8 as claimed: when a call with backup=true whose effective output is the
\* source itself overwrites the source, <path>.backup holds the bytes the
\* source had.
C8_SnapshotBeforeOverwrite ==
    (/\ outcome \in {"running", "returned", "crashed"}
     /\ call.backup
     /\ EffectiveOutput = call.file_path
     /\ Overwriting)
        => fs[BackupPath(call.file_path)] = pre[call.file_path]

\* C9: a call on a path that does not exist, or with an empty mapping,
\* returns success=false and the error of the precondition, leaves
\* backup_path unset, and changes no path.
C9_PreconditionFailure ==
    (/\ HasReturned
     /\ NotRestored
     /\ (~Exists(pre, call.file_path) \/ call.url_mapping = <<>>))
        => /\ ~result.success
           /\ result.error = IF ~Exists(pre, call.file_path)
                             THEN "FileNotFoundError"
                             ELSE "ValueError: empty mapping"
           /\ result.backup_path = None
           /\ fs = pre

\* An in-place call with backup=true and an empty mapping has returned.
C9_Witness ==
    /\ HasReturned
    /\ NotRestored
    /\ Exists(pre, call.file_path)
    /\ call.url_mapping = <<>>
    /\ call.backup
    /\ InPlace
    /\ result.error = "ValueError: empty mapping"

\* C10: when an in-place call with backup=true is interrupted after its
\* backup copy, <path>.backup holds the bytes the path had before the call;
\* restore_from_backup(path) then returns true and brings the path back to
\* them, and a second restore_from_backup(path) leaves both as they are.
C10_CrashRecovery ==
    (outcome = "crashed" /\ BackupMade)
        => /\ fs[BackupPath(call.file_path)] = pre[call.file_path]
           /\ (restored.path = call.file_path)
                 => /\ restored.ok
                    /\ fs[call.file_path] = pre[call.file_path]

\* The call was interrupted between truncating the source and writing it,
\* and the path was restored twice.
C10_Witness ==
    /\ outcome = "crashed"
    /\ log = <<"backup", "read", "truncate">>
    /\ restored.path = call.file_path
    /\ restored.n = 2
    /\ restored.ok
    /\ fs[call.file_path] = pre[call.file_path]

\* ------------------------------------------------------------------------
\* Claims about the HTML strategy (specification SpecHtml)
\* ------------------------------------------------------------------------

HtmlApplied == sStrategy = "html" /\ sStage \in {"once", "twice"}

\* The document holds a marked section, which html.parser rejects.
Malformed(content) == Contains(content, <<"<", "!", "[">>)

IsImage(tag) == tag.t = "start" /\ tag.name = Img

\* The image elements of a document, in document order.
Images(content) == SelectSeq(Parse(content), IsImage)

IsKey(url_mapping, v) ==
    \E m \in Indexes(url_mapping) : Old(url_mapping[m]) = v

ValueOf(url_mapping, k) ==
    New(url_mapping[CHOOSE m \in Indexes(url_mapping) : Old(url_mapping[m]) = k])

\* The src and data-src attributes of the images of a document: <<i, k>>
\* for attribute k of image i.
UrlAttrsOf(images) ==
    UNION { { <<i, k>> : k \in { k \in 1..Len(images[i].attrs) :
                                   images[i].attrs[k][1] \in {Src, DataSrc} } }
            : i \in 1..Len(images) }

UrlAttrs(content) == UrlAttrsOf(Images(content))

ValueAt(images, p) == images[p[1]].attrs[p[2]][2]

AttrValue(content, p) == ValueAt(Images(content), p)

\* The attributes that are a key of the mapping.
KeyAttrsOf(images, url_mapping) ==
    {p \in UrlAttrsOf(images) : IsKey(url_mapping, ValueAt(images, p))}

KeyAttrs(content, url_mapping) == KeyAttrsOf(Images(content), url_mapping)

\* The CSS texts of a document: of its <style> elements, then of its style
\* attributes, in document order.
RECURSIVE StyleTexts(_, _)
StyleTexts(tokens, i) ==
    IF i > Len(tokens) THEN <<>>
    ELSE IF tokens[i].t = "start" /\ tokens[i].name = Style
    THEN <<IF i < Len(tokens) /\ tokens[i + 1].t = "data"
           THEN tokens[i + 1].data ELSE <<>>>> \o StyleTexts(tokens, i + 1)
    ELSE StyleTexts(tokens, i + 1)

RECURSIVE StyleAttrs(_, _)
StyleAttrs(tokens, i) ==
    IF i > Len(tokens) THEN <<>>
    ELSE IF tokens[i].t = "start" /\ AttrIndex(tokens[i].attrs, Style) # 0
    THEN <<tokens[i].attrs[AttrIndex(tokens[i].attrs, Style)][2]>>
            \o StyleAttrs(tokens, i + 1)
    ELSE StyleAttrs(tokens, i + 1)

CssTextsOf(tokens) == StyleTexts(tokens, 1) \o StyleAttrs(tokens, 1)

CssTexts(content) == CssTextsOf(Parse(content))

\* C18 as claimed, on its example: an image whose src is the key of the one
\* pair yields an output that contains the image with the pair's value,
\* written as in the input, and a count of 1.
C18_AsClaimed ==
    (/\ HtmlApplied
     /\ sContent = <<"<">> \o Img \o <<" ">> \o Src \o <<"=", "\"", "a", "\"", ">">>
     /\ sMapping = << <<<<"a">>, <<"c">>>> >>)
        => /\ Contains(sFirst.content,
                       <<"<">> \o Img \o <<" ">> \o Src
                          \o <<"=", "\"", "c", "\"", ">">>)
           /\ sFirst.count = 1

\* C18, amended: for a document that parses, the output has the same images,
\* each src and data-src attribute holding the value of the key it was equal
\* to, and what it held before otherwise (also when it held a key as a part);
\* without CSS in the document the count is the number of attributes that
\* were a key.  An image is written back self-closed: <img src="a"> with
\* {a -> c} yields <img src="c"/> and a count of 1.
C18_ImageAttributesExactMatch ==
    (HtmlApplied /\ ~Malformed(sContent))
        => /\ ~sFirst.raised
           /\ \A read \in {Parse(sContent)} :
              \A images \in {SelectSeq(read, IsImage)},
                 written \in {Images(sFirst.content)} :
                 /\ Len(written) = Len(images)
                 /\ \A p \in UrlAttrsOf(images) :
                       /\ p \in UrlAttrsOf(written)
                       /\ ValueAt(written, p) =
                             IF IsKey(sMapping, ValueAt(images, p))
                             THEN ValueOf(sMapping, ValueAt(images, p))
                             ELSE ValueAt(images, p)
                 /\ CssTextsOf(read) = <<>>
                       => sFirst.count
                             = Cardinality(KeyAttrsOf(images, sMapping))
           /\ (/\ sContent = <<"<">> \o Img \o <<" ">> \o Src
                                \o <<"=", "\"", "a", "\"", ">">>
               /\ sMapping = << <<<<"a">>, <<"c">>>> >>)
                 => /\ sFirst.content = <<"<">> \o Img \o <<" ">> \o Src
                                           \o <<"=", "\"", "c", "\"", "/", ">">>
                    /\ sFirst.count = 1

\* An image with a src that holds a key as a part, left alone, and a data-src
\* that is the key, replaced: a count of 1.
C18_Witness ==
    /\ HtmlApplied
    /\ ~Malformed(sContent)
    /\ CssTexts(sContent) = <<>>
    /\ \E p \in UrlAttrs(sContent) :
          /\ ~IsKey(sMapping, AttrValue(sContent, p))
          /\ \E m \in Indexes(sMapping) :
                Contains(AttrValue(sContent, p), Old(sMapping[m]))
          /\ AttrValue(sFirst.content, p) = AttrValue(sContent, p)
    /\ \E p \in UrlAttrs(sContent) :
          /\ IsKey(sMapping, AttrValue(sContent, p))
          /\ AttrValue(sFirst.content, p) # AttrValue(sContent, p)
    /\ sFirst.count = 1

\* A CSS text after the first n pairs of the mapping were applied to it.
RECURSIVE AfterPairs(_, _, _)
AfterPairs(css, url_mapping, n) ==
    IF n = 0 THEN css
    ELSE Replace(AfterPairs(css, url_mapping, n - 1),
                 Old(url_mapping[n]), New(url_mapping[n]))

\* The pairs whose key occurs in the CSS text when their turn comes.
PairHits(css, url_mapping) ==
    {n \in Indexes(url_mapping) :
        Contains(AfterPairs(css, url_mapping, n - 1), Old(url_mapping[n]))}

\* The pairs whose key occurs in the CSS text of the document.
PairsIn(css, url_mapping) ==
    {n \in Indexes(url_mapping) : Contains(css, Old(url_mapping[n]))}

RECURSIVE SumHits(_, _, _)
SumHits(texts, url_mapping, i) ==
    IF i > Len(texts) THEN 0
    ELSE Cardinality(PairHits(texts[i], url_mapping))
            + SumHits(texts, url_mapping, i + 1)

RECURSIVE SumPairsIn(_, _, _)
SumPairsIn(texts, url_mapping, i) ==
    IF i > Len(texts) THEN 0
    ELSE Cardinality(PairsIn(texts[i], url_mapping))
            + SumPairsIn(texts, url_mapping, i + 1)

\* C19 as claimed: in every CSS text of a document that parses, each pair
\* whose key occurs in the text has all its occurrences replaced by its
\* value, and the count grows by 1 for each such pair.
C19_AsClaimed ==
    (HtmlApplied /\ ~Malformed(sContent))
        => /\ Len(CssTexts(sFirst.content)) = Len(CssTexts(sContent))
           /\ \A i \in 1..Len(CssTexts(sContent)) :
                 CssTexts(sFirst.content)[i] =
                    ReplaceEvery(CssTexts(sContent)[i], sMapping, 1)
           /\ sFirst.count = Cardinality(KeyAttrs(sContent, sMapping))
                                + SumPairsIn(CssTexts(sContent), sMapping, 1)

\* C19, amended: in every CSS text of a document that parses (the text of a
\* <style> element, the value of a style attribute) the pairs are applied in
\* mapping order, each to the text as the pairs before it left it; a pair
\* whose key occurs in that text has all its occurrences replaced and adds 1
\* to the count, however many they are.
C19_CssCountsPairs ==
    (HtmlApplied /\ ~Malformed(sContent))
        => /\ ~sFirst.raised
           /\ \A read \in {Parse(sContent)} :
              \A css \in {CssTextsOf(read)},
                 written \in {CssTexts(sFirst.content)} :
                 /\ Len(written) = Len(css)
                 /\ \A i \in 1..Len(css) :
                       written[i] = AfterPairs(css[i], sMapping, Len(sMapping))
                 /\ sFirst.count
                       = Cardinality(KeyAttrsOf(SelectSeq(read, IsImage),
                                                sMapping))
                            + SumHits(css, sMapping, 1)

\* A style sheet in which one pair replaced two occurrences: the HTML count
\* is 1, and the text strategy counts 2 on the same document.
C19_Witness ==
    /\ HtmlApplied
    /\ ~Malformed(sContent)
    /\ Len(sMapping) = 1
    /\ Len(CssTexts(sContent)) = 1
    /\ Count(CssTexts(sContent)[1], Old(sMapping[1])) = 2
    /\ ~Contains(CssTexts(sFirst.content)[1], Old(sMapping[1]))
    /\ sFirst.count = 1
    /\ replace_urls_in_text(sContent, sMapping).count = 2

\* A tree whose sub/c.html holds the document.
OnDisk(content) ==
    [PlainTree EXCEPT !["dir/sub/c.html"] = File("utf-8", content)]

\* replace_urls_in_file on that file, in place.
CalledOnDisk ==
    ReplaceInFile(OnDisk(sContent), "dir/sub/c.html", sMapping, None, FALSE)

\* C20: on a document the parser rejects, the HTML strategy does not raise
\* and returns the content and the count the text strategy returns for the
\* document; replace_urls_in_file on a .html file holding it, given a
\* mapping, returns success=true with that count and writes that content.
C20_FallbackToText ==
    (HtmlApplied /\ Malformed(sContent))
        => \A text \in {replace_urls_in_text(sContent, sMapping)} :
              /\ ~sFirst.raised
              /\ sFirst.content = text.content
              /\ sFirst.count = text.count
              /\ sMapping # <<>> =>
                    CalledOnDisk =
                       [files |-> OnDisk(text.content),
                        result |-> [file_path |-> "dir/sub/c.html",
                                    output_path |-> "dir/sub/c.html",
                                    success |-> TRUE,
                                    replacements |-> text.count,
                                    backup_path |-> None,
                                    error |-> None]]

\* A rejected document with an image whose src is a key: replaced as text,
\* the image written as it was.
C20_Witness ==
    /\ HtmlApplied
    /\ Malformed(sContent)
    /\ Len(Images(sContent)) = 1
    /\ KeyAttrs(sContent, sMapping) # {}
    /\ sFirst.count >= 1
    /\ sFirst.content # sContent
    /\ CalledOnDisk.result.success

\* ------------------------------------------------------------------------
\* Claims about the calls over a directory tree (specification SpecDir)
\* ------------------------------------------------------------------------

\* The last call was restore_from_backup, and it has returned.
Restoring == last.op = "restore"

\* <path>.backup of the last call, as it was when the call began.
BackupBefore == before[BackupPath(last.path)]

\* C11: restore_from_backup(path) never raises.  When <path>.backup does not
\* exist it returns false and leaves path (and everything else) as it was;
\* when the backup is there it copies it over path, changes nothing else and
\* returns true; when the copy fails (the backup path is a directory) it
\* returns false.
C11_RestoreNeverRaises ==
    Restoring =>
        /\ last.raised = None
        /\ BackupBefore.kind = "absent" => ~last.ok /\ tree = before
        /\ BackupBefore.kind = "file" =>
              /\ last.ok
              /\ tree[last.path] = BackupBefore
              /\ \A p \in TreePaths \ {last.path} : tree[p] = before[p]
        /\ BackupBefore.kind = "dir" => ~last.ok /\ tree = before

\* A restore brought back a file that had been rewritten.
C11_Witness ==
    /\ Restoring
    /\ last.ok
    /\ before[last.path].kind = "file"
    /\ before[last.path] # BackupBefore
    /\ tree[last.path] = BackupBefore

\* The paths whose name ends in .backup.
NamedBackup == TreeBackups \cup {"dir/n.backup"}

\* p is in the scope of a cleanup of directory d: anywhere below d when
\* recursive, directly in d otherwise.
InScope(p, d, recursive) ==
    IF recursive THEN IsUnder(p, d) ELSE Dirname(p) = d

\* The step is a call of cleanup_backups.
CleanupStep == ops' = ops + 1 /\ last'.op = "cleanup"

\* A step that is no cleanup keeps every backup file in existence.
BackupsPersist ==
    CleanupStep \/ \A p \in NamedBackup :
                      tree[p].kind = "file" => tree'[p].kind = "file"

\* After a cleanup the files named .backup in its scope are gone and every
\* other path is as it was.
CleanedExactly ==
    last.op = "cleanup" =>
        \A p \in TreePaths :
            IF /\ p \in NamedBackup
               /\ before[p].kind = "file"
               /\ before[last.path].kind = "dir"
               /\ InScope(p, last.path, last.recursive)
            THEN tree[p] = Absent
            ELSE tree[p] = before[p]

\* A restore that follows a cleanup, for a file in its scope, returns false
\* and changes nothing.
RestoreAfterCleanupFails ==
    /\ last.op = "cleanup"
    /\ ops' = ops + 1
    /\ last'.op = "restore"
    /\ InScope(last'.path, last.path, last.recursive)
    => ~last'.ok /\ tree' = tree

\* C12: a backup file continues to exist through every replace_urls_in_file,
\* replace_urls_in_directory and restore_from_backup; only cleanup_backups
\* deletes it; cleanup_backups deletes exactly the files named *.backup
\* under its directory (the whole tree when recursive, the top level
\* otherwise) and nothing else; restore_from_backup then returns false for
\* every file in that scope.
C12_BackupsLiveUntilCleanup ==
    [][BackupsPersist /\ CleanedExactly' /\ RestoreAfterCleanupFails]_vars

\* Backups made by a directory call were cleaned at the top level only: the
\* ones of the top level are gone, the one in the subdirectory is still there.
C12_Witness ==
    /\ last.op = "cleanup"
    /\ last.path = "dir"
    /\ ~last.recursive
    /\ before["dir/a.txt.backup"].kind = "file"
    /\ before["dir/b.md.backup"].kind = "file"
    /\ tree["dir/a.txt.backup"] = Absent
    /\ tree["dir/b.md.backup"] = Absent
    /\ tree["dir/sub/c.html.backup"].kind = "file"

\* The last call was replace_urls_in_directory and it has returned its list.
DirectoryReturned == last.op = "directory" /\ last.ok /\ dpc = "idle"

\* The extensions the walk accepts, in the spellings the tree has.
AcceptedExtension(p) ==
    p \in {"dir/a.txt", "dir/b.md", "dir/sub/c.html", "dir/E.HTM"}

\* The files the call is to enumerate: regular files with an accepted
\* extension, anywhere below the directory or directly in it.
Enumerated ==
    {p \in TreePaths : /\ before[p].kind = "file"
                       /\ AcceptedExtension(p)
                       /\ InScope(p, last.path, last.recursive)}

\* C13: replace_urls_in_directory returns exactly one result per enumerated
\* file whose lower-cased extension is .txt, .md, .html or .htm (the whole
\* tree when recursive, the regular files of the top level otherwise), in
\* the order of the enumeration (a directory's files before those of its
\* subdirectories); a failed result does not stop the walk.
C13_OneResultPerFile ==
    DirectoryReturned =>
        /\ Len(results) = Len(taken)
        /\ \A i \in 1..Len(results) : results[i].file_path = taken[i]
        /\ \A i, j \in 1..Len(taken) : taken[i] = taken[j] => i = j
        /\ {taken[i] : i \in 1..Len(taken)} = Enumerated
        /\ \A i, j \in 1..Len(taken) :
              Dirname(taken[i]) = last.path /\ Dirname(taken[j]) # last.path
                 => i < j

\* A recursive call returned three results; the first one is a failure and
\* successes follow it.
C13_Witness ==
    /\ DirectoryReturned
    /\ last.recursive
    /\ Len(results) = 3
    /\ ~results[1].success
    /\ results[2].success
    /\ results[3].success
    /\ results[3].file_path = "dir/sub/c.html"

\* When the call began, dir held exactly a.txt, b.md and sub/c.html.
ExactlyThree ==
    \A p \in TreePaths :
        IsUnder(p, "dir") =>
            /\ before[p].kind = "file"
                  <=> p \in {"dir/a.txt", "dir/b.md", "dir/sub/c.html"}
            /\ before[p].kind = "dir" <=> p = "dir/sub"

\* The files of the results, in order.
ResultFiles == [i \in 1..Len(results) |-> results[i].file_path]

\* The recursive walk of that directory: three results, top level first.
RecursiveGivesThree ==
    DirectoryReturned /\ ExactlyThree /\ last.path = "dir" /\ last.recursive
        => ResultFiles \in { <<"dir/a.txt", "dir/b.md", "dir/sub/c.html">>,
                             <<"dir/b.md", "dir/a.txt", "dir/sub/c.html">> }

\* C14 as the claim has it: one result without recursion.
C14_AsClaimed ==
    /\ RecursiveGivesThree
    /\ DirectoryReturned /\ ExactlyThree /\ last.path = "dir" /\ ~last.recursive
          => Len(results) = 1

\* C14: for a directory holding exactly a.txt, b.md and sub/c.html,
\* replace_urls_in_directory returns 3 results in traversal order when
\* recursive, and 2 results, those of a.txt and b.md, when not recursive.
C14_ThreeAndTwoResults ==
    /\ RecursiveGivesThree
    /\ DirectoryReturned /\ ExactlyThree /\ last.path = "dir" /\ ~last.recursive
          => ResultFiles \in { <<"dir/a.txt", "dir/b.md">>,
                               <<"dir/b.md", "dir/a.txt">> }

\* The call without recursion has returned its two results.
C14_Witness ==
    /\ DirectoryReturned
    /\ ExactlyThree
    /\ last.path = "dir"
    /\ ~last.recursive
    /\ Len(results) = 2

\* The last call was replace_urls_in_directory (running, returned or raised).
DirectoryCalled == last.op = "directory"

\* C15: replace_urls_in_directory raises to its caller only when the
\* directory is missing (FileNotFoundError) or the path is no directory
\* (ValueError), and then before any file is read, backed up or written;
\* otherwise it raises nothing, and every per-file error is a failed result
\* with its message in the list it returns.
C15_RaisesOnlyForTheDirectory ==
    DirectoryCalled =>
        /\ before[last.path].kind = "absent" =>
              last.raised = "FileNotFoundError"
        /\ before[last.path].kind = "file" => last.raised = "ValueError"
        /\ before[last.path].kind = "dir" => last.raised = None
        /\ last.raised # None =>
              tree = before /\ results = <<>> /\ taken = <<>> /\ dpc = "idle"
        /\ \A i \in 1..Len(results) :
              ~results[i].success => results[i].error # None

\* A call has returned a list in which every result is a failure.
C15_Witness ==
    /\ DirectoryReturned
    /\ last.raised = None
    /\ Len(results) = 3
    /\ \A i \in 1..Len(results) : ~results[i].success

\* The place of a source file below the output directory outd.
Mirrored ==
    [p \in {"dir/a.txt", "dir/b.md", "dir/sub/c.html", "dir/E.HTM"} |->
        CASE p = "dir/a.txt" -> "outd/a.txt"
          [] p = "dir/b.md" -> "outd/b.md"
          [] p = "dir/sub/c.html" -> "outd/sub/c.html"
          [] p = "dir/E.HTM" -> "outd/E.HTM"]

\* The source directory and everything below it.
Sources == {p \in TreePaths : p = "dir" \/ IsUnder(p, "dir")}

\* What the call on file p is to write: the strategy's result for what p
\* held when the call began.
Rewritten(p) ==
    File("utf-8", Dispatch(p, before[p].text, dmapping).content)

\* The results so far are those of files written to their place below outd.
WrittenBelowOutput ==
    \A i \in 1..Len(results) :
        results[i].success =>
            /\ results[i].output_path = Mirrored[results[i].file_path]
            /\ results[i].backup_path = None
            /\ tree[Mirrored[results[i].file_path]]
                  = Rewritten(results[i].file_path)

\* The results so far are those of files rewritten where they are.
WrittenInPlace ==
    \A i \in 1..Len(results) :
        results[i].success =>
            /\ results[i].output_path = results[i].file_path
            /\ tree[results[i].file_path] = Rewritten(results[i].file_path)
            /\ last.backup =>
                  /\ results[i].backup_path = BackupPath(results[i].file_path)
                  /\ tree[BackupPath(results[i].file_path)]
                        = before[results[i].file_path]

\* Nothing in the source directory has changed or appeared.
SourcesKept == \A p \in Sources : tree[p] = before[p]

FileCalled ==
    last.op = "file" /\ before[last.path].kind = "file" /\ dmapping # <<>>

\* What the strategy for the lower-cased extension of p hands back for the
\* text p held: .html and .HTM HTML, .md Markdown, .txt and no extension
\* text.
ByExtension(p) ==
    CASE p \in {"dir/sub/c.html", "dir/E.HTM"} ->
            replace_urls_in_html(before[p].text, dmapping)
      [] p = "dir/b.md" -> replace_urls_in_markdown(before[p].text, dmapping)
      [] p \in {"dir/a.txt", "dir/README"} ->
            replace_urls_in_text(before[p].text, dmapping)

\* C17: replace_urls_in_file selects the strategy from the lower-cased
\* extension of file_path only: .html and .htm the HTML strategy, .md the
\* Markdown strategy, anything else (no extension included) the text
\* strategy, whatever output_path and the content are.  The result and the
\* output file are those of the selected strategy.
C17_StrategyByExtension ==
    FileCalled =>
        IF ByExtension(last.path).raised
        THEN /\ ~results[1].success
             /\ results[1].error = ByExtension(last.path).error
        ELSE /\ results[1].success
             /\ results[1].replacements = ByExtension(last.path).count
             /\ tree[results[1].output_path]
                   = File("utf-8", ByExtension(last.path).content)

\* E.HTM was written to a .md output path by the HTML strategy, which counts
\* its style sheet once where the text strategy counts two occurrences.
C17_Witness ==
    /\ FileCalled
    /\ last.path = "dir/E.HTM"
    /\ last.output = "outd/b.md"
    /\ results[1].success
    /\ results[1].replacements = 1
    /\ replace_urls_in_text(before["dir/E.HTM"].text, dmapping).count = 2
    /\ tree["outd/b.md"].kind = "file"

\* ------------------------------------------------------------------------
\* Further claims about the strategies (specification SpecStrategy)
\* ------------------------------------------------------------------------

\* The Markdown strategy has been applied to the drawn document.
MarkdownApplied == sStrategy = "markdown" /\ sStage \in {"once", "twice"}

\* The document holds the image ![x](url).
HasImage(content, url) ==
    Contains(content, <<"!", "[", "x", "]", "(">> \o url \o <<")">>)

\* C21: in the Markdown strategy, for every pair whose key stands in an
\* image ![x](KEY) of the document, the strategy returns (it does not raise)
\* with a count of at least 1, and, the mapping being that one pair, the
\* result holds the image ![x](VALUE), alt text and brackets as they were.
C21_ImageSyntaxReplaced ==
    MarkdownApplied =>
        \A i \in 1..Len(sMapping) :
            HasImage(sContent, Old(sMapping[i])) =>
                /\ ~sFirst.raised
                /\ sFirst.count >= 1
                /\ Len(sMapping) = 1 =>
                      HasImage(sFirst.content, New(sMapping[1]))

\* The items of the dict in the opposite order of iteration; the dicts of
\* the model have at most two items, so that this is every other order.
Reversed(url_mapping) ==
    [i \in 1..Len(url_mapping) |-> url_mapping[Len(url_mapping) + 1 - i]]

\* The text strategy hands back the same for the other order of the items.
SameInEveryOrder ==
    \A other \in {replace_urls_in_text(sContent, Reversed(sMapping))} :
        /\ other.raised = sFirst.raised
        /\ other.content = sFirst.content
        /\ other.count = sFirst.count

\* No key is a substring of another key or of any value.
NoKeyInKeyOrValue(url_mapping) ==
    \A i, j \in Indexes(url_mapping) :
        /\ i # j => ~Contains(Old(url_mapping[j]), Old(url_mapping[i]))
        /\ ~Contains(New(url_mapping[j]), Old(url_mapping[i]))

\* Two keys overlap: one contains the other, or an end of one is the
\* beginning of the other.
KeysOverlap(url_mapping) ==
    \E i, j \in Indexes(url_mapping) :
        i # j /\ Overlap(Old(url_mapping[i]), Old(url_mapping[j]))

\* C28 as claimed: when no key is a substring of another key or of any value,
\* the text strategy returns the same content and count for every order of
\* the items.
C28_OrderFreeWithoutSubstrings ==
    (TextApplied /\ NoKeyInKeyOrValue(sMapping)) => SameInEveryOrder

\* C28: when no key overlaps another key or another key's value (neither
\* contains the other, no end of one is the beginning of the other, and the
\* value is not empty), the text strategy returns the same content and count
\* for every order of the items.
C28_OrderFreeWithoutOverlap ==
    (/\ TextApplied
     /\ ~KeysOverlap(sMapping)
     /\ ~KeyOverlapsOtherValue(sMapping))
        => SameInEveryOrder

\* Two keys that do not overlap, both found and replaced.
C28_Witness ==
    /\ TextApplied
    /\ Len(sMapping) = 2
    /\ ~KeysOverlap(sMapping)
    /\ ~KeyOverlapsOtherValue(sMapping)
    /\ \A i \in Indexes(sMapping) : Contains(sContent, Old(sMapping[i]))
    /\ sFirst.count = 2
    /\ SameInEveryOrder

\* ------------------------------------------------------------------------
\* Claims about the report (specification SpecReport)
\* ------------------------------------------------------------------------

Reported == rpc = "reported"

Lines == { report[i] : i \in 1..Len(report) }

Successful == { i \in 1..Len(rResults) : rResults[i].success }

Unsuccessful == { i \in 1..Len(rResults) : ~rResults[i].success }

WithBackup == { i \in Successful : rResults[i].backup_path # None }

RECURSIVE SumOver(_)
SumOver(indexes) ==
    IF indexes = {} THEN 0
    ELSE LET i == CHOOSE i \in indexes : TRUE
         IN  rResults[i].replacements + SumOver(indexes \ {i})

\* How many lines of the report are the given line.
Times(line) == Cardinality({ i \in 1..Len(report) : report[i] = line })

ReportOfResults ==
    Reported =>
        /\ report[4] = <<"total files: ">> \o Decimal(Len(rResults))
        /\ report[5] = <<"successful: ">> \o Decimal(Cardinality(Successful))
        /\ report[6] = <<"failed: ">> \o Decimal(Cardinality(Unsuccessful))
        /\ Cardinality(Successful) + Cardinality(Unsuccessful) = Len(rResults)
        /\ report[7] = <<"total replacements: ">> \o Decimal(SumOver(Successful))
        /\ \A i \in Successful :
              /\ Times(FileLine(rResults[i]))
                    = Cardinality({ j \in Successful :
                                      FileLine(rResults[j]) = FileLine(rResults[i]) })
              /\ i \in WithBackup =>
                    Times(BackupLine(rResults[i]))
                        = Cardinality({ j \in WithBackup :
                                          BackupLine(rResults[j]) = BackupLine(rResults[i]) })
        /\ \A i \in Unsuccessful :
              Times(ErrorLine(rResults[i]))
                  = Cardinality({ j \in Unsuccessful :
                                    ErrorLine(rResults[j]) = ErrorLine(rResults[i]) })
        /\ Len(report) = 9
              + (IF Successful # {}
                 THEN 3 + Cardinality(Successful) + Cardinality(WithBackup) ELSE 0)
              + (IF Unsuccessful # {} THEN 3 + Cardinality(Unsuccessful) ELSE 0)

\* C22: the report is a function of the result list alone: its total is the
\* length of the list, its successful and failed counts add up to the total,
\* its total of replacements is the sum over the successful results only,
\* every successful result has its line with its count (and a backup line
\* when backup_path is not None), every failed result has its line with its
\* error, and the call changes neither the list nor any file.
C22_ReportIsPure ==
    /\ []ReportOfResults
    /\ [][rResults' = rResults /\ fs' = fs /\ tree' = tree]_vars

\* A report has been made of a list with a successful result that has a
\* backup, a successful one without, and a failed one.
C22_Witness ==
    /\ Reported
    /\ WithBackup # {}
    /\ Successful \ WithBackup # {}
    /\ Unsuccessful # {}

\* ------------------------------------------------------------------------
\* Further claims about replace_urls_in_file (specification Spec)
\* ------------------------------------------------------------------------

\* C23: a call on an existing file with a mapping that validate_url_mapping
\* reports invalid returns success=false and leaves the content of the file
\* as it was, as a call with an empty mapping does.
C23_MalformedMappingRejected ==
    (/\ HasReturned
     /\ NotRestored
     /\ Exists(pre, call.file_path)
     /\ ~validate_url_mapping(call.url_mapping).valid)
        => /\ ~result.success
           /\ fs[call.file_path] = pre[call.file_path]

\* ------------------------------------------------------------------------
\* Claims about an output directory inside the directory (specification
\* SpecNested)
\* ------------------------------------------------------------------------

\* The supported files below the directory of the call when it began.
StartFiles ==
    { p \in TreePaths : /\ IF dcall.recursive
                           THEN IsUnder(p, dcall.directory_path)
                           ELSE Dirname(p) = dcall.directory_path
                        /\ before[p].kind = "file"
                        /\ Supported(p) }

\* The step takes a file of the walk.
TakesFile == dpc = "walk" /\ Len(taken') = Len(taken) + 1

IsFile(files, p) == files[p].kind = "file"

\* C24: a call on a file changes no file but its output file and its
\* <path>.backup; when the output path names another file the source stays
\* as it was; and in a directory call the processing of one file changes no
\* other source file of the same walk.
C24_OnlyOutputAndBackupChange ==
    [][TakesFile =>
          LET file_path == taken'[Len(taken')]
              r == results'[Len(results')]
          IN  /\ \A p \in TreePaths \ {r.output_path, r.backup_path} :
                    (IsFile(tree, p) \/ IsFile(tree', p)) => tree'[p] = tree[p]
              /\ r.output_path # file_path => tree'[file_path] = tree[file_path]
              /\ \A p \in StartFiles \ {file_path} : tree'[p] = tree[p]]_vars

\* C30: a recursive directory call takes each supported file that was below
\* the directory when the call began exactly once and takes no file that the
\* walk itself wrote (a backup, or an output below an output directory inside
\* the directory), so it returns as many results as there were such files.
C30_WalkTakesStartFilesOnce ==
    (/\ dpc = "idle"
     /\ last.op = "directory"
     /\ last.ok
     /\ dcall.recursive)
        => /\ Len(results) = Cardinality(StartFiles)
           /\ \A p \in StartFiles :
                 Cardinality({ i \in 1..Len(taken) : taken[i] = p }) = 1
           /\ \A i \in 1..Len(taken) : taken[i] \in StartFiles

\* ------------------------------------------------------------------------
\* Claims about the backup and the result of a call (specification Spec)
\* ------------------------------------------------------------------------

\* The returned call was made in place on a file, with backup=true.
BackedUpInPlace == HasReturned /\ call.backup /\ InPlace /\ SourceWasFile

\* C25 as claimed: after every in-place call with backup=true on a file,
\* <path>.backup holds the bytes the file had just before that call.
C25_BackupOfEveryCall ==
    BackedUpInPlace => fs[BackupPath(call.file_path)] = pre[call.file_path]

\* C25: after an in-place call with backup=true on a file that was given a
\* mapping that is not empty, <path>.backup holds the bytes the file had just
\* before that call, whether the call succeeded or failed later, and whatever
\* backup there was; a call given an empty mapping leaves <path>.backup as it
\* was.
C25_BackupOfLastCheckedCall ==
    BackedUpInPlace =>
        IF call.url_mapping # <<>>
        THEN fs[BackupPath(call.file_path)] = pre[call.file_path]
        ELSE fs[BackupPath(call.file_path)] = pre[BackupPath(call.file_path)]

\* A call in place that failed after its backup has replaced the backup an
\* earlier call had left, which held other bytes.
C25_Witness ==
    /\ BackedUpInPlace
    /\ call.url_mapping # <<>>
    /\ ~result.success
    /\ pre[BackupPath(call.file_path)].kind = "file"
    /\ pre[BackupPath(call.file_path)] # pre[call.file_path]
    /\ fs[BackupPath(call.file_path)] = pre[call.file_path]

\* C26: in every returned result, success is true exactly when error is None,
\* a failed result has replacements 0, output_path is the file the call
\* writes (output_path or file_path), and backup_path is set exactly when the
\* call made its backup copy, to the path of that copy.
C26_ResultConsistent ==
    HasReturned =>
        /\ result.success <=> result.error = None
        /\ ~result.success => result.replacements = 0
        /\ result.file_path = call.file_path
        /\ result.output_path = EffectiveOutput
        /\ result.backup_path # None <=> BackupMade
        /\ BackupMade => result.backup_path = BackupPath(call.file_path)

\* A call failed after it had counted a replacement and made its backup.
C26_Witness ==
    /\ HasReturned
    /\ ~result.success
    /\ locals.replacements > 0
    /\ result.backup_path # None
    /\ BackupMade

\* ------------------------------------------------------------------------
\* Claims about the downloads (specification SpecDownload)
\* ------------------------------------------------------------------------

\* The call has left the loop that picks its local_path and has not failed.
HasPicked(c) ==
    \/ tpc[c] \in {"get", "save", "verify"}
    \/ tpc[c] = "done" /\ tresult[c].success

\* C27: no two calls of a batch, which are for distinct URLs, have picked the
\* same local_path, so that no two downloads write one file and no two
\* results carry one local_path.
C27_DistinctLocalPaths ==
    \A b, c \in Calls :
        (b # c /\ HasPicked(b) /\ HasPicked(c)) => local_path[b] # local_path[c]

\* ------------------------------------------------------------------------
\* Claims about the retry loops (specification SpecRetry)
\* ------------------------------------------------------------------------

RetryRunning == ypc \in {"loop", "returned"}

FailedIn(result_list) ==
    { result_list[i].item :
        i \in { j \in 1..Len(result_list) : ~result_list[j].success } }

SucceededIn(result_list) ==
    { result_list[i].item :
        i \in { j \in 1..Len(result_list) : result_list[j].success } }

\* What round n re-attempts: the failures of the round before it, or of the
\* results given.
Before(n) == IF n = 1 THEN failed_results ELSE rounds[n - 1]

RetrySafe ==
    RetryRunning =>
        /\ Len(rounds) <= max_retries
        /\ \A n \in 1..Len(rounds) :
              /\ ItemsOf(rounds[n]) = FailedIn(Before(n))
              /\ Len(rounds[n]) = Cardinality(FailedIn(Before(n)))
              /\ rounds[n] # <<>>
              /\ \A m \in 1..(n - 1) :
                    SucceededIn(rounds[m]) \cap ItemsOf(rounds[n]) = {}
        /\ ypc = "returned" =>
              \/ Len(rounds) = max_retries
              \/ FailedIn(Before(Len(rounds) + 1)) = {}

\* C29: each of the two retry loops returns, after at most max_retries
\* rounds; a round re-attempts the items that failed in the round before it,
\* each once, and no others, so that no item is re-attempted after it has
\* succeeded; and the loop makes no round once nothing is left failed.
C29_RetryTerminates ==
    /\ []RetrySafe
    /\ <>(ypc = "returned")

\* The loop has returned after max_retries rounds with an item still failed;
\* another item succeeded in the first round and was left alone after it.
C29_Witness ==
    /\ ypc = "returned"
    /\ Len(rounds) = max_retries
    /\ Len(rounds) >= 2
    /\ SucceededIn(rounds[1]) # {}
    /\ FailedIn(rounds[Len(rounds)]) # {}

====
